---- MODULE Spec2Model ----
(***************************************************************************)
(* A model of keras/layers/normalization.py: BatchNormalizationBase        *)
(* (construction, build, call, get_config).                                *)
(*                                                                         *)
(* Python values are modelled as follows.                                  *)
(*   None / a value x      : <<>> / <<x>>                                  *)
(*   axis                  : [kind, val], kind the Python type of the      *)
(*                           argument ("int", "list", "tuple", "other"),   *)
(*                           val the sequence of its entries               *)
(*   input shape           : [known, dims], dims a sequence of optional    *)
(*                           sizes (known = FALSE: undefined rank)         *)
(*   a dictionary          : a function from its possible keys to optional *)
(*                           values, None for an absent key                *)
(*   a float               : an exact rational <<n, d>>, d > 0, in lowest  *)
(*                           terms; <<0, 0>> is NaN                        *)
(*   a tensor of weights   : its value on one feature channel              *)
(***************************************************************************)
EXTENDS Integers, Sequences, FiniteSets, TLC

VARIABLES
    pc,        \* "new", "constructed", "built", "failed", "configured", "reloaded"
    args,      \* the arguments the constructor was called with
    layer,     \* the layer object's attributes
    shape,     \* the input shape given to build
    config,    \* the dictionary returned by get_config
    warnings,  \* number of logging.warning calls made by get_config
    clone,     \* the layer re-created from config and built on the same shape
    out,       \* what the last call computed
    env,       \* the execution context: distribution strategy, eager or graph
    calls,     \* number of calls made on the layer
    replicas,  \* the per-replica copies of one moving statistic
    norm       \* a data set and the Normalization layers adapted on it

vars == <<pc, args, layer, shape, config, warnings, clone, out, env, calls,
          replicas, norm>>

-----------------------------------------------------------------------------
(* Bounds of the model *)

\* largest input rank given to build
MaxRank == 5
\* axis entries of a two-element axis list range over -MaxPairAxis..MaxPairAxis
MaxPairAxis == 2
\* number of calls of the layer in one behaviour
MaxCalls == 2
\* number of replicas of a distribution strategy
MaxReplicas == 3
\* number of training steps one replica takes
MaxSteps == 3
\* number of shards a data set is split into
MaxShards == 3

-----------------------------------------------------------------------------
(* Python values *)

None == <<>>

Some(x) == <<x>>

Get(o) == o[1]

Range(s) == {s[i] : i \in DOMAIN s}

Abs(n) == IF n < 0 THEN -n ELSE n

\* the element of a one-element set.  An operator binds its operands and
\* intermediate results with a set constructor, The({e(x) : x \in {v}}), so
\* that each is evaluated once.
The(S) == CHOOSE r \in S : TRUE

RECURSIVE Gcd(_, _)
Gcd(a, b) == IF b = 0 THEN a ELSE Gcd(b, a % b)

NaN == <<0, 0>>

IsNaN(a) == a[2] = 0

\* n / d in lowest terms, positive denominator; a zero denominator is NaN
Rat(n, d) ==
    The({ IF y = 0 THEN NaN
          ELSE The({ IF y < 0 THEN <<(0 - x) \div g, (0 - y) \div g>>
                     ELSE <<x \div g, y \div g>> : g \in {Gcd(Abs(x), Abs(y))} }) :
          x \in {n}, y \in {d} })

Zero == <<0, 1>>

One == <<1, 1>>

RAdd(a, b) == The({ Rat(x[1] * y[2] + y[1] * x[2], x[2] * y[2]) : x \in {a}, y \in {b} })

RSub(a, b) == The({ Rat(x[1] * y[2] - y[1] * x[2], x[2] * y[2]) : x \in {a}, y \in {b} })

RMul(a, b) == The({ Rat(x[1] * y[1], x[2] * y[2]) : x \in {a}, y \in {b} })

RDiv(a, b) == The({ Rat(x[1] * y[2], x[2] * y[1]) : x \in {a}, y \in {b} })

RNeg(a) == The({ <<0 - x[1], x[2]>> : x \in {a} })

RLe(a, b) == \E x \in {a}, y \in {b} : x[1] * y[2] <= y[1] * x[2]

RLt(a, b) == \E x \in {a}, y \in {b} : x[1] * y[2] < y[1] * x[2]

\* tf.maximum, tf.minimum: NaN if either operand is NaN
RMax(a, b) ==
    The({ IF IsNaN(x) \/ IsNaN(y) THEN NaN ELSE IF RLe(x, y) THEN y ELSE x :
          x \in {a}, y \in {b} })

RMin(a, b) ==
    The({ IF IsNaN(x) \/ IsNaN(y) THEN NaN ELSE IF RLe(x, y) THEN x ELSE y :
          x \in {a}, y \in {b} })

\* the integer square root, by Newton's iteration from above
RECURSIVE ISqrtNewton(_, _)
ISqrtNewton(n, x) ==
    The({ IF y >= x THEN x ELSE ISqrtNewton(n, y) : y \in {(x + n \div x) \div 2} })

ISqrt(n) == IF n = 0 THEN 0 ELSE ISqrtNewton(n, n)

IsSquare(a) ==
    \E x \in {a} : /\ x[2] > 0 /\ x[1] >= 0
                   /\ \E k \in {ISqrt(x[1])} : k * k = x[1]
                   /\ \E k \in {ISqrt(x[2])} : k * k = x[2]

\* tf.sqrt; exact on the squares of rationals, which are the only arguments
\* the model gives it (see Batches, EpsilonArg)
RSqrt(a) ==
    The({ IF IsNaN(x) \/ x[1] < 0 THEN NaN ELSE <<ISqrt(x[1]), ISqrt(x[2])>> :
          x \in {a} })

-----------------------------------------------------------------------------
(* BatchNormalizationBase.__init__ *)

FusedAxes == {-4, -3, -1, 1, 3, 4}

FusedDtypes == {"float16", "bfloat16", "float32", "None"}

ClippingKeys == {"rmax", "rmin", "dmax"}

\* the keys a renorm_clipping dictionary of the model may hold
DictKeys == ClippingKeys \cup {"other"}

EmptyDict == [k \in DictKeys |-> None]

Keys(d) == {k \in DOMAIN d : d[k] # None}

\* _raise_if_fused_cannot_be_used raises ValueError
RaisesIfFusedCannotBeUsed(l) ==
    \/ l.renorm
    \/ Len(l.axis.val) > 1
    \/ l.axis.val[1] \notin FusedAxes
    \/ l.virtual_batch_size # None
    \/ l.adjustment # None
    \/ l.dtype \notin FusedDtypes

FusedCanBeUsed(l) == ~RaisesIfFusedCannotBeUsed(l)

\* __init__ raises from its fused check
InitFusedRaises(l, fused) ==
    l.v2 /\ fused = Some(TRUE) /\ RaisesIfFusedCannotBeUsed(l)

\* the value __init__ stores in self.fused
InitFused(l, fused) ==
    IF l.v2
    THEN IF fused = Some(TRUE)
         THEN fused
         ELSE IF fused = None /\ ~FusedCanBeUsed(l) THEN Some(FALSE) ELSE fused
    ELSE IF fused = None THEN Some(TRUE) ELSE fused

\* the object after __init__(**a); error names the exception raised, if any
InitLayer(a) ==
    LET l0 == [ v2 |-> a.v2, axis |-> a.axis, momentum |-> a.momentum,
                epsilon |-> a.epsilon, center |-> a.center, scale |-> a.scale,
                renorm |-> a.renorm, virtual_batch_size |-> a.virtual_batch_size,
                adjustment |-> a.adjustment, dtype |-> a.dtype,
                fused |-> None, trainable |-> a.trainable,
                renorm_clipping |-> None, renorm_momentum |-> None,
                data_format |-> None, param_shape |-> None,
                weights |-> <<>>, weight_shapes |-> <<>>, built |-> FALSE,
                error |-> "" ]
        \* renorm_clipping = renorm_clipping or {}
        clipping == IF a.renorm_clipping = None THEN EmptyDict
                    ELSE Get(a.renorm_clipping)
    IN  IF a.axis.kind \notin {"int", "list", "tuple"}
        THEN [l0 EXCEPT !.error = "TypeError"]
        ELSE IF InitFusedRaises(l0, a.fused)
        THEN [l0 EXCEPT !.error = "ValueError"]
        ELSE IF a.renorm /\ Keys(clipping) \ ClippingKeys # {}
        THEN [l0 EXCEPT !.fused = InitFused(l0, a.fused), !.error = "ValueError"]
        ELSE IF a.renorm
        THEN [l0 EXCEPT !.fused = InitFused(l0, a.fused),
                        !.renorm_clipping = Some(clipping),
                        !.renorm_momentum = Some(a.renorm_momentum)]
        ELSE [l0 EXCEPT !.fused = InitFused(l0, a.fused)]

-----------------------------------------------------------------------------
(* BatchNormalizationBase.build.  Each stage takes the object and gives it  *)
(* back as the stage leaves it; error names the exception a stage raised.   *)

Raised(l) == l.error # ""

Raise(l, e) == [l EXCEPT !.error = e]

\* if not input_shape.ndims: raise (undefined rank, and rank 0)
CheckRank(l, input_shape) ==
    IF ~input_shape.known \/ Len(input_shape.dims) = 0
    THEN Raise(l, "ValueError") ELSE l

\* Convert axis to list and resolve negatives.  Item assignment on a tuple
\* raises TypeError at its first negative entry.
ResolveAxis(l, ndims) ==
    LET ax == IF l.axis.kind = "int"
              THEN [kind |-> "list", val |-> l.axis.val] ELSE l.axis
        l1 == [l EXCEPT !.axis = ax]
    IN  IF \E i \in DOMAIN ax.val : ax.val[i] < 0
        THEN IF ax.kind = "tuple"
             THEN Raise(l1, "TypeError")
             ELSE [l1 EXCEPT !.axis.val =
                      [i \in DOMAIN ax.val |->
                          IF ax.val[i] < 0 THEN ndims + ax.val[i] ELSE ax.val[i]]]
        ELSE l1

\* Validate axes
ValidateAxes(l, ndims) ==
    IF \E i \in DOMAIN l.axis.val : l.axis.val[i] < 0 \/ l.axis.val[i] >= ndims
    THEN Raise(l, "ValueError")
    ELSE IF Len(l.axis.val) # Cardinality(Range(l.axis.val))
    THEN Raise(l, "ValueError")
    ELSE l

ValidateVirtualBatch(l) ==
    IF l.virtual_batch_size = None THEN l
    ELSE IF Get(l.virtual_batch_size) <= 0 THEN Raise(l, "ValueError")
    ELSE IF 0 \in Range(l.axis.val) THEN Raise(l, "ValueError")
    ELSE IF l.adjustment # None THEN Raise(l, "ValueError")
    ELSE l

\* a V1 selection that does not ask _fused_can_be_used
SelectFusedByRankOnly(l, ndims) ==
    IF l.fused = Some(FALSE) THEN l
    ELSE IF l.v2
    THEN IF l.fused = None
         THEN [l EXCEPT !.fused = Some(ndims \in {4, 5})]
         ELSE IF ndims \notin {4, 5} THEN Raise(l, "ValueError") ELSE l
    ELSE [l EXCEPT !.fused = Some(ndims \in {4, 5})]

\* if self.fused in (None, True): ...
SelectFused(l, ndims) ==
    IF l.fused = Some(FALSE) THEN l
    ELSE IF l.v2
    THEN IF l.fused = None
         THEN [l EXCEPT !.fused = Some(ndims \in {4, 5})]
         ELSE IF ndims \notin {4, 5} THEN Raise(l, "ValueError") ELSE l
    ELSE [l EXCEPT !.fused = Some(ndims \in {4, 5} /\ FusedCanBeUsed(l))]

\* self.axis == [k]: a tuple never equals a list
AxisIs(l, k) == l.axis.kind = "list" /\ l.axis.val = <<k>>

\* if self.fused: choose _data_format
SelectDataFormat(l, ndims) ==
    IF l.fused # Some(TRUE) THEN l
    ELSE IF AxisIs(l, 1) /\ ndims = 4 THEN [l EXCEPT !.data_format = Some("NCHW")]
    ELSE IF AxisIs(l, 1) /\ ndims = 5 THEN [l EXCEPT !.data_format = Some("NCDHW")]
    ELSE IF AxisIs(l, 3) /\ ndims = 4 THEN [l EXCEPT !.data_format = Some("NHWC")]
    ELSE IF AxisIs(l, 4) /\ ndims = 5 THEN [l EXCEPT !.data_format = Some("NDHWC")]
    ELSE IF ndims = 5 THEN [l EXCEPT !.fused = Some(FALSE)]
    ELSE Raise(l, "ValueError")

\* the first two weights, without the moving statistics
GammaBetaOnly(l) ==
    LET l1 == IF l.scale THEN [l EXCEPT !.weights = ("gamma" :> One) @@ @] ELSE l
    IN  IF l.center THEN [l1 EXCEPT !.weights = ("beta" :> Zero) @@ @] ELSE l1

\* a build that checks the axis dimensions after it has allocated gamma and beta
CheckAxisDimsAfterAllocation(l, input_shape) ==
    IF \E i \in DOMAIN l.axis.val : input_shape.dims[l.axis.val[i] + 1] = None
    THEN Raise(GammaBetaOnly([l EXCEPT !.scale = TRUE]), "ValueError") ELSE l

\* axis_to_dim: every normalized axis has a defined size
CheckAxisDims(l, input_shape) ==
    IF \E i \in DOMAIN l.axis.val : input_shape.dims[l.axis.val[i] + 1] = None
    THEN Raise(l, "ValueError") ELSE l

\* axis_to_dim[x], a dictionary: one entry per distinct axis
AxisToDim(l, input_shape, x) == Get(input_shape.dims[x + 1])

InsertAt1(s, e) == <<s[1], e>> \o SubSeq(s, 2, Len(s))

\* a param_shape without the dimension added for virtual batching
ComputeParamShapeWithoutInsert(l, input_shape) ==
    LET ndims == Len(input_shape.dims)
        axes  == Range(l.axis.val)
        full  == [i \in 1..ndims |->
                    IF (i - 1) \in axes THEN AxisToDim(l, input_shape, i - 1) ELSE 1]
    IN  IF Cardinality(axes) = 1 /\ l.virtual_batch_size = None
        THEN [l EXCEPT !.param_shape =
                 Some(<<AxisToDim(l, input_shape, l.axis.val[1])>>)]
        ELSE IF l.virtual_batch_size = None
        THEN [l EXCEPT !.param_shape = Some(full)]
        ELSE IF l.axis.kind = "tuple"
        THEN Raise(l, "TypeError")
        ELSE [l EXCEPT !.param_shape = Some(full),
                       !.axis.val = [i \in DOMAIN l.axis.val |-> l.axis.val[i] + 1]]

\* param_shape, and the shift of self.axis under virtual batching (item
\* assignment: TypeError on a tuple)
ComputeParamShape(l, input_shape) ==
    LET ndims == Len(input_shape.dims)
        axes  == Range(l.axis.val)
        full  == [i \in 1..ndims |->
                    IF (i - 1) \in axes THEN AxisToDim(l, input_shape, i - 1) ELSE 1]
    IN  IF Cardinality(axes) = 1 /\ l.virtual_batch_size = None
        THEN [l EXCEPT !.param_shape =
                 Some(<<AxisToDim(l, input_shape, l.axis.val[1])>>)]
        ELSE IF l.virtual_batch_size = None
        THEN [l EXCEPT !.param_shape = Some(full)]
        ELSE IF l.axis.kind = "tuple"
        THEN Raise(l, "TypeError")
        ELSE [l EXCEPT !.param_shape = Some(InsertAt1(full, 1)),
                       !.axis.val = [i \in DOMAIN l.axis.val |-> l.axis.val[i] + 1]]

\* add_weight(name, shape, initializer): the weight's shape and the value
\* of its initializer.  The initial values: gamma 'ones', beta 'zeros',
\* moving_mean 'zeros', moving_variance 'ones', moving_stddev
\* sqrt(moving_variance_initializer)
AddWeight(l, name, weight_shape, value) ==
    [l EXCEPT !.weights = (name :> value) @@ @,
              !.weight_shapes = (name :> weight_shape) @@ @]

AddGammaBeta(l) ==
    LET l1 == IF l.scale THEN AddWeight(l, "gamma", Get(l.param_shape), One) ELSE l
    IN  IF l.center THEN AddWeight(l1, "beta", Get(l.param_shape), Zero) ELSE l1

AddMovingStats(l) ==
    LET param_shape == Get(l.param_shape)
        l1 == AddWeight(AddWeight(l, "moving_mean", param_shape, Zero),
                        "moving_variance", param_shape, One)
    IN  IF l.renorm
        THEN AddWeight(AddWeight(AddWeight(l1, "moving_stddev", param_shape,
                                           RSqrt(One)),
                                 "renorm_mean", param_shape, Zero),
                       "renorm_stddev", param_shape, RSqrt(One))
        ELSE l1

AddWeights(l) == AddMovingStats(AddGammaBeta(l))

\* the steps of build after the rank check, in the order of the code
BuildStage(k, l, input_shape) ==
    CASE k = 1 -> ResolveAxis(l, Len(input_shape.dims))
      [] k = 2 -> ValidateAxes(l, Len(input_shape.dims))
      [] k = 3 -> ValidateVirtualBatch(l)
      [] k = 4 -> SelectFused(l, Len(input_shape.dims))
      [] k = 5 -> SelectDataFormat(l, Len(input_shape.dims))
      [] k = 6 -> CheckAxisDims(l, input_shape)
      [] k = 7 -> ComputeParamShape(l, input_shape)
      [] OTHER -> [AddWeights(l) EXCEPT !.built = TRUE]

\* build from its k-th step on; a raised exception skips the steps that remain
RECURSIVE BuildFrom(_, _, _)
BuildFrom(k, l0, input_shape) ==
    The({ IF Raised(l) \/ k > 8 THEN l
          ELSE BuildFrom(k + 1, BuildStage(k, l, input_shape), input_shape) :
          l \in {l0} })

Build(l0, input_shape) == BuildFrom(1, CheckRank(l0, input_shape), input_shape)

-----------------------------------------------------------------------------
(* BatchNormalizationBase.get_config, and the layer made from a config *)

ConfigKeys == {"axis", "momentum", "epsilon", "center", "scale", "renorm",
               "renorm_clipping", "renorm_momentum", "virtual_batch_size",
               "adjustment", "fused", "trainable", "dtype"}

\* a get_config that puts the adjustment function in the dictionary
GetConfigWithAdjustment(l) ==
    [k \in ConfigKeys |->
        CASE k = "axis"      -> Some(l.axis)
          [] k = "momentum"  -> Some(l.momentum)
          [] k = "epsilon"   -> Some(l.epsilon)
          [] k = "center"    -> Some(l.center)
          [] k = "scale"     -> Some(l.scale)
          [] k = "renorm"    -> IF l.renorm THEN Some(TRUE) ELSE None
          [] k = "renorm_clipping" -> IF l.renorm THEN l.renorm_clipping ELSE None
          [] k = "renorm_momentum" -> IF l.renorm THEN l.renorm_momentum ELSE None
          [] k = "virtual_batch_size" -> l.virtual_batch_size
          [] k = "adjustment" -> l.adjustment
          [] k = "trainable" -> Some(l.trainable)
          [] k = "dtype"     -> Some(l.dtype)
          [] OTHER           -> None]

\* the dictionary get_config returns: the keys of `config` always, the
\* TensorFlow-specific ones only if set, then the base layer's trainable and
\* dtype; adjustment is not put in
GetConfig(l) ==
    [k \in ConfigKeys |->
        CASE k = "axis"      -> Some(l.axis)
          [] k = "momentum"  -> Some(l.momentum)
          [] k = "epsilon"   -> Some(l.epsilon)
          [] k = "center"    -> Some(l.center)
          [] k = "scale"     -> Some(l.scale)
          [] k = "renorm"    -> IF l.renorm THEN Some(TRUE) ELSE None
          [] k = "renorm_clipping" -> IF l.renorm THEN l.renorm_clipping ELSE None
          [] k = "renorm_momentum" -> IF l.renorm THEN l.renorm_momentum ELSE None
          [] k = "virtual_batch_size" -> l.virtual_batch_size
          [] k = "trainable" -> Some(l.trainable)
          [] k = "dtype"     -> Some(l.dtype)
          [] OTHER           -> None]

\* get_config calls logging.warning
ConfigWarns(l) == l.adjustment # None

\* the constructor's default for an argument the config does not hold
OrDefault(o, d) == IF o = None THEN d ELSE Get(o)

DefaultRenormMomentum == Rat(99, 100)

\* cls(**config)
FromConfig(c, v2) ==
    InitLayer([ v2 |-> v2, axis |-> Get(c["axis"]), momentum |-> Get(c["momentum"]),
                epsilon |-> Get(c["epsilon"]), center |-> Get(c["center"]),
                scale |-> Get(c["scale"]),
                renorm |-> OrDefault(c["renorm"], FALSE),
                renorm_clipping |-> c["renorm_clipping"],
                renorm_momentum |-> OrDefault(c["renorm_momentum"], DefaultRenormMomentum),
                virtual_batch_size |-> c["virtual_batch_size"],
                adjustment |-> c["adjustment"], fused |-> c["fused"],
                trainable |-> Get(c["trainable"]), dtype |-> Get(c["dtype"]) ])

-----------------------------------------------------------------------------
(* LayerNormalization: construction and build *)

\* LayerNormalization.__init__
LayerNormInit(a) ==
    IF a.axis.kind = "other"
    THEN [axis |-> a.axis, error |-> "TypeError"]
    ELSE [ axis |-> a.axis, epsilon |-> a.epsilon, center |-> a.center,
           scale |-> a.scale, dtype |-> a.dtype, fused |-> None,
           param_shape |-> None, weights |-> {}, built |-> FALSE, error |-> "" ]

\* a check that asks only that the largest axis is the last dimension
LayerNormFusedWithoutContiguity(l, ndims) ==
    LET axes == Range(l.axis.val)
        hi == CHOOSE x \in axes : \A y \in axes : y <= x
    IN  /\ hi = ndims - 1
        /\ ~RLt(l.epsilon, Rat(1001, 100000000))
        /\ l.dtype = "float32"

\* LayerNormalization._fused_can_be_used: the sorted axes are the last
\* dimensions of the input, epsilon is at least 1.001e-5 and the dtype is
\* float32
LayerNormFusedCanBeUsed(l, ndims) ==
    LET axes == Range(l.axis.val)
        hi == CHOOSE x \in axes : \A y \in axes : y <= x
        lo == CHOOSE x \in axes : \A y \in axes : x <= y
    IN  /\ hi = ndims - 1 /\ hi - lo = Len(l.axis.val) - 1
        /\ ~RLt(l.epsilon, Rat(1001, 100000000))
        /\ l.dtype = "float32"

\* LayerNormalization.build on an input shape of known rank: an int or a
\* tuple axis becomes a list, negative entries are resolved, the axes are
\* validated, gamma and beta are created with the sizes of the axes
LayerNormBuild(l, input_shape) ==
    LET ndims == Len(input_shape.dims)
        val == [i \in DOMAIN l.axis.val |->
                  IF l.axis.val[i] < 0 THEN ndims + l.axis.val[i] ELSE l.axis.val[i]]
        l1 == [l EXCEPT !.axis = [kind |-> "list", val |-> val]]
    IN  IF \E i \in DOMAIN val : val[i] < 0 \/ val[i] >= ndims
        THEN Raise(l1, "ValueError")
        ELSE IF Len(val) # Cardinality(Range(val))
        THEN Raise(l1, "ValueError")
        ELSE [l1 EXCEPT
                !.param_shape = Some([i \in DOMAIN val |-> input_shape.dims[val[i] + 1]]),
                !.weights = (IF l.scale THEN {"gamma"} ELSE {})
                            \cup (IF l.center THEN {"beta"} ELSE {}),
                !.fused = Some(LayerNormFusedCanBeUsed(l1, ndims)),
                !.built = TRUE]

-----------------------------------------------------------------------------
(* BatchNormalizationBase.call: the statistics of one feature channel.  An  *)
(* input batch is the sequence of the channel's values, one per example.    *)

RECURSIVE SumSeq(_)
SumSeq(s) == IF s = <<>> THEN 0 ELSE Head(s) + SumSeq(Tail(s))

RECURSIVE RSumSeq(_)
RSumSeq(s) == IF s = <<>> THEN Zero ELSE RAdd(Head(s), RSumSeq(Tail(s)))

\* tf.reduce_mean of a sequence of floats (NaN on an empty one)
ReduceMean(s) == RDiv(RSumSeq(s), Rat(Len(s), 1))

\* tf.nn.moments over the reduced axes: <<mean, variance>>, NaN on no elements
CalculateMeanAndVar(xs) ==
    The({ <<mean, RSub(Rat(SumSeq([i \in DOMAIN xs |-> xs[i] * xs[i]]), Len(xs)),
                       RMul(mean, mean))>> :
          mean \in {Rat(SumSeq(xs), Len(xs))} })

\* _moments: zero statistics when the batch size is known and zero
Moments(xs, input_batch_size) ==
    IF input_batch_size # None /\ ~(Get(input_batch_size) > 0)
    THEN <<Zero, Zero>> ELSE CalculateMeanAndVar(xs)

\* tf.reshape(inputs, [virtual_batch_size, -1, ...]) followed by the
\* reduction over axis 0: column j holds the elements j, j + B/V, ...
VirtualBatches(xs, v) ==
    LET cols == Len(xs) \div v
    IN  [j \in 1..cols |-> [i \in 1..v |-> xs[(i - 1) * cols + j]]]

\* a moving average whose decay is the momentum itself
AssignMovingAverageSwapped(variable, value, momentum, inputs_size) ==
    LET update_delta == RMul(RSub(variable, value), momentum)
    IN  IF inputs_size # None /\ ~(Get(inputs_size) > 0)
        THEN variable ELSE RSub(variable, update_delta)

\* an update that overwrites the variable with the value
AssignValueDirectly(variable, value, momentum, inputs_size) ==
    IF inputs_size # None /\ ~(Get(inputs_size) > 0)
    THEN variable ELSE RAdd(value, Zero)

\* _assign_moving_average: the variable's new value
AssignMovingAverage(variable, value, momentum, inputs_size) ==
    LET decay        == RSub(One, momentum)
        update_delta == RMul(RSub(variable, value), decay)
    IN  IF inputs_size # None /\ ~(Get(inputs_size) > 0)
        THEN RSub(variable, Zero) ELSE RSub(variable, update_delta)

\* backend.relu
Relu(a) == RMax(a, Zero)

\* a training value that the trainable flag does not override
GetTrainingValueOfArgument(l, training, learning_phase) ==
    LET t == IF training.kind = "none" THEN learning_phase ELSE training
    IN  [static |-> t.kind # "tensor", value |-> t.value]

\* _get_training_value, then control_flow_util.constant_value: the training
\* argument is None, a bool, an int or a tensor; [static, value] tells
\* whether its value is known when the call is traced, and the value
GetTrainingValue(l, training, learning_phase) ==
    LET t == IF training.kind = "none" THEN learning_phase ELSE training
    IN  IF l.v2 /\ ~l.trainable
        THEN [static |-> TRUE, value |-> FALSE]
        ELSE [static |-> t.kind # "tensor", value |-> t.value]

\* a composition that leaves the offset unscaled
ComposeTransformsOffsetUnscaled(scale, offset, then_scale, then_offset) ==
    <<IF then_scale # None THEN RMul(scale, Get(then_scale)) ELSE scale,
      IF then_offset # None THEN RAdd(offset, Get(then_offset)) ELSE offset>>

\* _compose_transforms: <<scale, offset>>
ComposeTransforms(scale, offset, then_scale, then_offset) ==
    The({ <<IF ts # None THEN RMul(s, Get(ts)) ELSE s,
            The({ IF to # None THEN RAdd(o1, Get(to)) ELSE o1 :
                  o1 \in {IF ts # None THEN RMul(o, Get(ts)) ELSE o} })>> :
          s \in {scale}, o \in {offset}, ts \in {then_scale}, to \in {then_offset} })

Weight(l, name) == IF name \in DOMAIN l.weights THEN Some(l.weights[name]) ELSE None

\* a correction that is not reset when training is false
RenormCorrectionAlways(l, mean, variance, training) ==
    The({ <<RDiv(RSqrt(RAdd(variance, l.epsilon)), renorm_stddev),
            RDiv(RSub(mean, l.weights["renorm_mean"]), renorm_stddev)>> :
          renorm_stddev \in {RMax(l.weights["renorm_stddev"], RSqrt(l.epsilon))} })

\* a correction whose minimum is not applied
RenormCorrectionNoRmin(l, mean, variance, training) ==
    IF ~training.value THEN <<One, Zero>>
    ELSE The({
      LET clip == Get(l.renorm_clipping)
          r0 == RDiv(RSqrt(RAdd(variance, l.epsilon)), renorm_stddev)
          d0 == RDiv(RSub(mean, l.weights["renorm_mean"]), renorm_stddev)
          r2 == IF clip["rmax"] # None THEN RMin(r0, Get(clip["rmax"])) ELSE r0
          d1 == IF clip["dmax"] # None
                THEN RMin(RMax(d0, RNeg(Get(clip["dmax"]))), Get(clip["dmax"]))
                ELSE d0
      IN  <<r2, d1>> :
      renorm_stddev \in {RMax(l.weights["renorm_stddev"], RSqrt(l.epsilon))} })

\* _renorm_correction_and_moments, the correction: <<r, d>>
RenormCorrection(l, mean, variance, training) ==
    IF ~training.value THEN <<One, Zero>>
    ELSE The({
      LET clip == Get(l.renorm_clipping)
          r0 == RDiv(RSqrt(RAdd(variance, l.epsilon)), renorm_stddev)
          d0 == RDiv(RSub(mean, l.weights["renorm_mean"]), renorm_stddev)
          r1 == IF clip["rmin"] # None THEN RMax(r0, Get(clip["rmin"])) ELSE r0
          r2 == IF clip["rmax"] # None THEN RMin(r1, Get(clip["rmax"])) ELSE r1
          d1 == IF clip["dmax"] # None
                THEN RMin(RMax(d0, RNeg(Get(clip["dmax"]))), Get(clip["dmax"]))
                ELSE d0
      IN  <<r2, d1>> :
      renorm_stddev \in {RMax(l.weights["renorm_stddev"], RSqrt(l.epsilon))} })

\* _renorm_correction_and_moments, _update_renorm_variable: the weights after
\* the updates of renorm_mean and renorm_stddev
UpdateRenormVariables(l, mean, variance, training, inputs_size) ==
    IF training.value
    THEN [l.weights EXCEPT
            !["renorm_mean"] =
                AssignMovingAverage(@, mean, Get(l.renorm_momentum), inputs_size),
            !["renorm_stddev"] =
                AssignMovingAverage(@, RSqrt(RAdd(variance, l.epsilon)),
                                    Get(l.renorm_momentum), inputs_size)]
    ELSE l.weights

\* an assignment to a running statistic: assign_sub of the moving-average
\* delta towards value, or assign of relu(moving_stddev^2 - value)
UpdateOp(var, op, value) == [var |-> var, op |-> op, value |-> value]

\* updates that are performed twice in a call
UpdateOpsTwice(l, new_mean, new_variance, training) ==
    IF ~training.value THEN <<>>
    ELSE << UpdateOp("moving_mean", "assign_sub", new_mean),
            UpdateOp("moving_mean", "assign_sub", new_mean),
            UpdateOp(IF l.renorm THEN "moving_stddev" ELSE "moving_variance",
                     "assign_sub",
                     IF l.renorm THEN RSqrt(RAdd(new_variance, l.epsilon))
                     ELSE new_variance),
            UpdateOp(IF l.renorm THEN "moving_stddev" ELSE "moving_variance",
                     "assign_sub",
                     IF l.renorm THEN RSqrt(RAdd(new_variance, l.epsilon))
                     ELSE new_variance) >>
         \o (IF l.renorm
             THEN <<UpdateOp("moving_variance", "assign", l.epsilon)>> ELSE <<>>)

\* updates that assign moving_variance before moving_stddev is updated
UpdateOpsVarianceFirst(l, new_mean, new_variance, training) ==
    IF ~training.value THEN <<>>
    ELSE IF l.renorm
    THEN << UpdateOp("moving_mean", "assign_sub", new_mean),
            UpdateOp("moving_variance", "assign", l.epsilon),
            UpdateOp("moving_stddev", "assign_sub",
                     RSqrt(RAdd(new_variance, l.epsilon))) >>
    ELSE << UpdateOp("moving_mean", "assign_sub", new_mean),
            UpdateOp("moving_variance", "assign_sub", new_variance) >>

\* mean_update and variance_update of call: the assignments they perform,
\* in order
UpdateOps(l, new_mean, new_variance, training) ==
    IF ~training.value THEN <<>>
    ELSE IF l.renorm
    THEN << UpdateOp("moving_mean", "assign_sub", new_mean),
            UpdateOp("moving_stddev", "assign_sub",
                     RSqrt(RAdd(new_variance, l.epsilon))),
            UpdateOp("moving_variance", "assign", l.epsilon) >>
    ELSE << UpdateOp("moving_mean", "assign_sub", new_mean),
            UpdateOp("moving_variance", "assign_sub", new_variance) >>

\* one assignment applied to the weights w
ApplyUpdateOp(l, w, u, input_batch_size) ==
    IF u.op = "assign_sub"
    THEN [w EXCEPT ![u.var] =
             AssignMovingAverage(@, u.value, l.momentum, input_batch_size)]
    ELSE [w EXCEPT ![u.var] =
             Relu(RSub(RMul(w["moving_stddev"], w["moving_stddev"]), u.value))]

RECURSIVE ApplyUpdateOps(_, _, _, _)
ApplyUpdateOps(l, w0, us, input_batch_size) ==
    The({ IF us = <<>> THEN w
          ELSE ApplyUpdateOps(l, ApplyUpdateOp(l, w, Head(us), input_batch_size),
                              Tail(us), input_batch_size) :
          w \in {w0} })

\* mean_update and variance_update of call, applied to the weights w
MovingUpdates(l, w, new_mean, new_variance, training, input_batch_size) ==
    ApplyUpdateOps(l, w, UpdateOps(l, new_mean, new_variance, training),
                   input_batch_size)

\* what the adjustment function of the model returns: <<scale, bias>>
AdjustmentFn == <<Rat(3, 2), Rat(1, 2)>>

\* an inference that normalizes with the statistics of the batch
CallInferenceFromBatch(l, xs) ==
    [ weights |-> l.weights,
      means |-> <<CalculateMeanAndVar(xs)[1]>>,
      variances |-> <<CalculateMeanAndVar(xs)[2]>>,
      r |-> None, d |-> None,
      scale |-> Weight(l, "gamma"), offset |-> Weight(l, "beta"),
      updates |-> 0, assigns |-> <<>> ]

\* the generic path of call with training known to be False when traced
CallInference(l, xs) ==
    [ weights |-> l.weights,
      means |-> <<l.weights["moving_mean"]>>,
      variances |-> <<l.weights["moving_variance"]>>,
      r |-> None, d |-> None,
      scale |-> Weight(l, "gamma"), offset |-> Weight(l, "beta"),
      updates |-> 0, assigns |-> <<>> ]

\* tf.shape(inputs)[0] where zero-size inputs are supported: of the reshaped
\* inputs under virtual batching
InputBatchSize(l, xs, zero_size) ==
    IF ~zero_size THEN None
    ELSE IF l.virtual_batch_size = None THEN Some(Len(xs))
    ELSE l.virtual_batch_size

\* [i for i in range(ndims) if i not in self.axis]
RECURSIVE NonAxes(_, _)
NonAxes(l, ndims) ==
    IF ndims = 0 THEN <<>>
    ELSE IF (ndims - 1) \in Range(l.axis.val) THEN NonAxes(l, ndims - 1)
    ELSE Append(NonAxes(l, ndims - 1), ndims - 1)

\* reduction axes from which the virtual batch dimension is not deleted
ReductionAxesKeepAll(l, ndims) == NonAxes(l, ndims)

\* reduction_axes of call on inputs of rank ndims (the rank after the
\* reshape under virtual batching): del reduction_axes[1]
ReductionAxes(l, ndims) ==
    IF l.virtual_batch_size # None
    THEN The({ <<all[1]>> \o SubSeq(all, 3, Len(all)) : all \in {NonAxes(l, ndims)} })
    ELSE NonAxes(l, ndims)

\* the rows of tf.reshape(inputs, [virtual_batch_size, -1, ...]): row i
\* holds the elements (i - 1) * B/V + 1 .. i * B/V
ReshapedRows(xs, v) ==
    LET cols == Len(xs) \div v
    IN  [i \in 1..v |-> [j \in 1..cols |-> xs[(i - 1) * cols + j]]]

\* the elements of the reshaped channel that share one mean and variance
\* when the reduction is over the axes red: dimensions 0 and 1 are those of
\* the reshape, the other reduced dimensions lie within one example
ReducedGroups(xs, v, red) ==
    IF 0 \in Range(red) /\ 1 \in Range(red) THEN <<xs>>
    ELSE IF 0 \in Range(red) THEN VirtualBatches(xs, v)
    ELSE IF 1 \in Range(red) THEN ReshapedRows(xs, v)
    ELSE [k \in 1..Len(xs) |-> <<xs[k]>>]

\* _moments of each virtual batch (of the batch, without virtual batching);
\* under virtual batching the rank of the reshaped inputs is the length of
\* param_shape
BatchMoments(l, xs, input_batch_size) ==
    The({ [j \in DOMAIN groups |-> Moments(groups[j], input_batch_size)] :
          groups \in {IF l.virtual_batch_size = None THEN <<xs>>
                      ELSE ReducedGroups(xs, Get(l.virtual_batch_size),
                                         ReductionAxes(l, Len(Get(l.param_shape))))} })

\* the statistics the inputs are normalized with, and new_mean, new_variance
Statistics(l, xs, training, input_batch_size) ==
    The({
      LET means == [j \in DOMAIN stats |->
                      IF training.value THEN stats[j][1]
                      ELSE l.weights["moving_mean"]]
          vars_ == [j \in DOMAIN stats |->
                      IF training.value THEN stats[j][2]
                      ELSE l.weights["moving_variance"]]
      IN  [ means |-> means, variances |-> vars_,
            new_mean |-> IF l.virtual_batch_size # None THEN ReduceMean(means)
                         ELSE means[1],
            new_variance |-> IF l.virtual_batch_size # None THEN ReduceMean(vars_)
                             ELSE vars_[1] ] :
      stats \in {BatchMoments(l, xs, input_batch_size)} })

\* scale and offset after the adjustment, which applies only when training
AdjustedScaleAndOffset(l, training) ==
    IF l.adjustment = None THEN <<Weight(l, "gamma"), Weight(l, "beta")>>
    ELSE The({ <<Some(c[1]), Some(c[2])>> :
               c \in {ComposeTransforms(
                         IF training.value THEN AdjustmentFn[1] ELSE One,
                         IF training.value THEN AdjustmentFn[2] ELSE Zero,
                         Weight(l, "gamma"), Weight(l, "beta"))} })

\* scale and offset after the renorm correction rd = <<r, d>>
RenormScaleAndOffset(l, rd, training) ==
    The({ The({ <<Some(c[1]), Some(c[2])>> :
                c \in {ComposeTransforms(rd[1], rd[2], so[1], so[2])} }) :
          so \in {AdjustedScaleAndOffset(l, training)} })

\* the generic path of call otherwise: the batch statistics, the renorm
\* correction, the composed scale and offset and the two updates
CallTraining(l, xs, training, zero_size) ==
    The({
      IF l.renorm
      THEN The({ [ weights |->
                     The({ MovingUpdates(l, w, st.new_mean, st.new_variance,
                                         training, ibs) :
                           w \in {UpdateRenormVariables(l, st.new_mean,
                                     st.new_variance, training, ibs)} }),
                   means |-> st.means, variances |-> st.variances,
                   r |-> Some(rd[1]), d |-> Some(rd[2]),
                   scale |-> RenormScaleAndOffset(l, rd, training)[1],
                   offset |-> RenormScaleAndOffset(l, rd, training)[2],
                   updates |-> 2,
                   assigns |-> UpdateOps(l, st.new_mean, st.new_variance, training) ] :
                 rd \in {RenormCorrection(l, st.new_mean, st.new_variance,
                                          training)} })
      ELSE [ weights |-> MovingUpdates(l, l.weights, st.new_mean, st.new_variance,
                                       training, ibs),
             means |-> st.means, variances |-> st.variances,
             r |-> None, d |-> None,
             scale |-> AdjustedScaleAndOffset(l, training)[1],
             offset |-> AdjustedScaleAndOffset(l, training)[2],
             updates |-> 2,
             assigns |-> UpdateOps(l, st.new_mean, st.new_variance, training) ] :
      ibs \in {InputBatchSize(l, xs, zero_size)},
      st \in {Statistics(l, xs, training, InputBatchSize(l, xs, zero_size))} })

\* tf.compat.v1.nn.fused_batch_norm as _fused_batch_norm uses it: when
\* training, the batch mean and the batch variance with Bessel's correction,
\* blended into the given mean and variance by exponential_avg_factor; in
\* inference, the mean and variance it was given.  <<batch mean, batch
\* variance, returned mean, returned variance>>
FusedOp(xs, mean, variance, is_training, factor) ==
    IF ~is_training THEN <<mean, variance, mean, variance>>
    ELSE The({ <<mv[1], mv[2],
                 RAdd(RMul(RSub(One, factor), mean), RMul(factor, mv[1])),
                 RAdd(RMul(RSub(One, factor), variance),
                      RMul(factor,
                           RMul(mv[2], Rat(Len(xs),
                                           IF Len(xs) > 1 THEN Len(xs) - 1 ELSE 1))))>> :
               mv \in {CalculateMeanAndVar(xs)} })

\* _fused_batch_norm
FusedBatchNorm(l, xs, training, e) ==
    LET mm == l.weights["moving_mean"]
        mv == l.weights["moving_variance"]
        input_batch_size == IF e.zero_size THEN Some(Len(xs)) ELSE None
        use_fused_avg_updates == e.fused_avg
        factor == IF use_fused_avg_updates THEN RSub(One, l.momentum) ELSE One
        momentum == IF training.static \/ training.value THEN l.momentum ELSE One
        updates == training.value \/ ~training.static
    IN  The({
          [ weights |->
              IF ~updates THEN l.weights
              ELSE IF use_fused_avg_updates
              THEN [l.weights EXCEPT !["moving_mean"] = res[3],
                                     !["moving_variance"] = res[4]]
              ELSE [l.weights EXCEPT
                      !["moving_mean"] =
                          AssignMovingAverage(@, res[3], momentum, input_batch_size),
                      !["moving_variance"] =
                          AssignMovingAverage(@, res[4], momentum, input_batch_size)],
            means |-> <<res[1]>>, variances |-> <<res[2]>>,
            r |-> None, d |-> None,
            scale |-> Weight(l, "gamma"), offset |-> Weight(l, "beta"),
            updates |-> IF updates THEN 2 ELSE 0,
            assigns |->
              IF ~updates THEN <<>>
              ELSE The({ << UpdateOp("moving_mean", op, res[3]),
                            UpdateOp("moving_variance", op, res[4]) >> :
                         op \in {IF use_fused_avg_updates THEN "assign"
                                 ELSE "assign_sub"} }) ] :
          \* _bessels_correction_test_only is True: the variance is left as it is
          res \in {IF ~training.value THEN FusedOp(xs, mm, mv, FALSE, One)
                   ELSE IF use_fused_avg_updates /\ input_batch_size # None
                           /\ ~(Get(input_batch_size) > 0)
                   THEN <<mm, mv, mm, mv>>
                   ELSE FusedOp(xs, mm, mv, TRUE, factor)} })

\* a normalization that does not subtract the mean
BatchNormOutputUncentered(x, mean, variance, offset, scale, epsilon) ==
    The({ [ offset |-> IF offset = None THEN Zero ELSE Get(offset),
            sign   |-> IF f[1] > 0 THEN 1 ELSE IF f[1] < 0 THEN 0 - 1 ELSE 0,
            square |-> RDiv(RMul(f, f), RAdd(variance, epsilon)),
            finite |-> RLt(Zero, RAdd(variance, epsilon)) ] :
          f \in {RMul(Rat(x, 1), IF scale = None THEN One ELSE Get(scale))} })

\* tf.nn.batch_normalization on one element:
\* (x - mean) * scale * rsqrt(variance + epsilon) + offset, kept exact as the
\* offset plus sign * sqrt(square); finite unless variance + epsilon is 0
BatchNormOutput(x, mean, variance, offset, scale, epsilon) ==
    The({ [ offset |-> IF offset = None THEN Zero ELSE Get(offset),
            sign   |-> IF f[1] > 0 THEN 1 ELSE IF f[1] < 0 THEN 0 - 1 ELSE 0,
            square |-> RDiv(RMul(f, f), v),
            finite |-> RLt(Zero, v) ] :
          f \in {RMul(RSub(<<x, 1>>, mean),
                      IF scale = None THEN One ELSE Get(scale))},
          v \in {RAdd(variance, epsilon)} })

\* the outputs of call: every element normalized with the mean and variance
\* of its virtual batch (element k of the reshaped batch lies in column
\* (k - 1) % cols), of the batch without virtual batching
Outputs(l, xs, res) ==
    [k \in DOMAIN xs |->
        The({ BatchNormOutput(xs[k], res.means[j], res.variances[j],
                              res.offset, res.scale, l.epsilon) :
              j \in {((k - 1) % Len(res.means)) + 1} })]

\* tf.reshape(inputs, [virtual_batch_size, -1, ...]) raises when the virtual
\* batch size does not divide the batch size
ReshapeRaises(l, xs) ==
    /\ l.virtual_batch_size # None
    /\ Len(xs) % Get(l.virtual_batch_size) # 0

\* call
Call(l, xs, training_arg, learning_phase, e) ==
    The({ IF l.fused = Some(TRUE) THEN FusedBatchNorm(l, xs, training, e)
          ELSE IF training.static /\ ~training.value THEN CallInference(l, xs)
          ELSE CallTraining(l, xs, training, e.zero_size) :
          training \in {GetTrainingValue(l, training_arg, learning_phase)} })

-----------------------------------------------------------------------------
(* The arguments and input shapes of the model *)

MomentumArg == Rat(3, 4)

RenormMomentumArg == Rat(1, 4)

EpsilonArg == Rat(1, 4)

AxisRange == (0 - MaxRank - 1)..MaxRank

PairRange == (0 - MaxPairAxis)..MaxPairAxis

AxisArgs ==
    {[kind |-> k, val |-> <<a>>] : k \in {"int", "list", "tuple"}, a \in AxisRange}
    \cup {[kind |-> k, val |-> <<a, b>>] :
             k \in {"list", "tuple"}, a \in PairRange, b \in PairRange}
    \cup {[kind |-> "other", val |-> <<>>]}

Clip(rmin, rmax, dmax, other) ==
    [k \in DictKeys |->
        CASE k = "rmin" -> rmin [] k = "rmax" -> rmax [] k = "dmax" -> dmax
          [] OTHER -> other]

BuildClippingArgs ==
    { None,
      Some(Clip(Some(Rat(1, 2)), Some(Rat(2, 1)), None, None)),
      Some(Clip(None, None, None, Some(Rat(1, 1)))) }

\* renorm_clipping is read only under renorm
BuildArgs ==
  { a \in
    [ v2 : BOOLEAN, axis : AxisArgs, momentum : {MomentumArg},
      epsilon : {EpsilonArg}, center : BOOLEAN, scale : BOOLEAN,
      renorm : BOOLEAN, renorm_clipping : BuildClippingArgs,
      renorm_momentum : {RenormMomentumArg},
      virtual_batch_size : {None, Some(0), Some(2)},
      adjustment : {None, Some("adjustment")},
      fused : {None, Some(TRUE), Some(FALSE)},
      trainable : {TRUE}, dtype : {"float32", "float64"} ] :
    a.renorm \/ a.renorm_clipping = None }

\* the size of dimension i of an input: distinct sizes, so that shapes tell
\* the dimensions apart
DimSize(i) == i + 1

\* shapes of rank 0..MaxRank with at most one undefined dimension, and the
\* shape of undefined rank
Shapes ==
    {[known |-> FALSE, dims |-> <<>>]}
    \cup {[known |-> TRUE,
           dims |-> [i \in 1..r |-> IF i = u THEN None ELSE Some(DimSize(i))]] :
             r \in 0..MaxRank, u \in 0..MaxRank}

NoArgs == [axis |-> [kind |-> "none", val |-> <<>>]]

NoLayer == [error |-> "no layer"]

NoConfig == [k \in ConfigKeys |-> None]

NoShape == [known |-> FALSE, dims |-> <<>>]

\* no replica holds a copy
NoReplicas == <<>>

\* no Normalization layer exists
NoNorm == <<>>

NoOut == [kind |-> "none"]

NoEnv == [zero_size |-> FALSE, fused_avg |-> FALSE]

-----------------------------------------------------------------------------
(* The life of a layer: construction, build, get_config, re-creation *)

Init ==
    /\ pc = "new"
    /\ args = NoArgs
    /\ layer = NoLayer
    /\ shape = NoShape
    /\ config = NoConfig
    /\ warnings = 0
    /\ clone = NoLayer
    /\ out = NoOut
    /\ env = NoEnv
    /\ calls = 0
    /\ replicas = NoReplicas
    /\ norm = NoNorm

Construct ==
    /\ pc = "new"
    /\ \E a \in BuildArgs :
          /\ args' = a
          /\ layer' = InitLayer(a)
          /\ pc' = IF Raised(InitLayer(a)) THEN "rejected" ELSE "constructed"
    /\ UNCHANGED <<shape, config, warnings, clone, out, env, calls, replicas, norm>>

DoBuild ==
    /\ pc = "constructed"
    /\ \E s \in Shapes :
          /\ shape' = s
          /\ layer' = Build(layer, s)
          /\ pc' = IF Raised(Build(layer, s)) THEN "failed" ELSE "built"
    /\ UNCHANGED <<args, config, warnings, clone, out, env, calls, replicas, norm>>

DoGetConfig ==
    /\ pc \in {"constructed", "built"}
    /\ config' = GetConfig(layer)
    /\ warnings' = IF ConfigWarns(layer) THEN warnings + 1 ELSE warnings
    /\ pc' = IF pc = "built" THEN "configured" ELSE "configured unbuilt"
    /\ UNCHANGED <<args, layer, shape, clone, out, env, calls, replicas, norm>>

\* a new layer from the config, built on the input shape of the original
DoFromConfig ==
    /\ pc = "configured"
    /\ clone' = LET c == FromConfig(config, layer.v2)
                IN  IF Raised(c) THEN c ELSE Build(c, shape)
    /\ pc' = "reloaded"
    /\ UNCHANGED <<args, layer, shape, config, warnings, out, env, calls, replicas, norm>>

LayerNormArgs ==
    [ axis : AxisArgs, epsilon : {EpsilonArg}, center : BOOLEAN, scale : BOOLEAN,
      dtype : {"float32"} ]

\* LayerNormalization(axis=..., ...)
ConstructLayerNorm ==
    /\ pc = "new"
    /\ \E a \in LayerNormArgs :
          /\ args' = a
          /\ layer' = LayerNormInit(a)
          /\ pc' = IF Raised(LayerNormInit(a)) THEN "layernorm rejected"
                   ELSE "layernorm constructed"
    /\ UNCHANGED <<shape, config, warnings, clone, out, env, calls, replicas, norm>>

\* LayerNormalization.build on an input shape of known rank
DoBuildLayerNorm ==
    /\ pc = "layernorm constructed"
    /\ \E s \in Shapes :
          /\ s.known
          /\ shape' = s
          /\ \E l \in {LayerNormBuild(layer, s)} :
                /\ layer' = l
                /\ pc' = IF Raised(l) THEN "layernorm failed" ELSE "layernorm built"
    /\ UNCHANGED <<args, config, warnings, clone, out, env, calls, replicas, norm>>

Next ==
    \/ Construct \/ DoBuild \/ DoGetConfig \/ DoFromConfig
    \/ ConstructLayerNorm \/ DoBuildLayerNorm

Spec == Init /\ [][Next]_vars

-----------------------------------------------------------------------------
(* Calls on a built layer *)

\* the axis and the input shapes of the called layers: the last axis of a
\* rank-2 input [batch, 3] and of a rank-4 input [batch, 1, 1, 3]
CallAxis == [kind |-> "int", val |-> <<0 - 1>>]

CallShapes ==
    { [known |-> TRUE, dims |-> <<None, Some(3)>>],
      [known |-> TRUE, dims |-> <<None, Some(1), Some(1), Some(3)>>] }

CallClippingArgs ==
    { None,
      Some(Clip(Some(Rat(3, 4)), Some(Rat(2, 1)), Some(Rat(1, 1)), None)),
      Some(Clip(Some(Rat(3, 4)), None, Some(Rat(1, 1)), None)),
      \* bounds in the wrong order
      Some(Clip(Some(Rat(2, 1)), Some(Rat(3, 4)), None, None)) }

CallArgs ==
  { a \in
    [ v2 : BOOLEAN, axis : {CallAxis}, momentum : {MomentumArg},
      epsilon : {EpsilonArg}, center : BOOLEAN, scale : BOOLEAN,
      renorm : BOOLEAN, renorm_clipping : CallClippingArgs,
      renorm_momentum : {RenormMomentumArg},
      virtual_batch_size : {None, Some(2)},
      adjustment : {None, Some("adjustment")},
      fused : {None}, trainable : {TRUE}, dtype : {"float32"} ] :
    a.renorm \/ a.renorm_clipping = None }

\* the rank-4 input is given to the layers that take the fused path on it
\* and to the layers with virtual batching
CallLayers ==
    { as \in CallArgs \X CallShapes :
        LET l == Build(InitLayer(as[1]), as[2])
        IN  /\ ~Raised(InitLayer(as[1])) /\ ~Raised(l)
            /\ Len(as[2].dims) = 4
                  => l.fused = Some(TRUE) \/ l.virtual_batch_size # None
            /\ l.fused = Some(TRUE) => Len(as[2].dims) = 4 }

\* _support_zero_size_input(), and whether the call runs eagerly outside
\* functions and outside XLA
Envs == [zero_size : BOOLEAN, fused_avg : BOOLEAN]

\* one feature channel of the input batches, one value per example
Batches ==
    { <<>>, <<0 - 2, 0 - 2>>, <<0, 3, 6>>, <<0, 0, 0, 4>>,
      <<0, 2, 4, 0, 2, 4>> }

\* the training argument: None, a Python bool or a tensor holding a bool
TrainingArgs ==
    {[kind |-> "none", value |-> FALSE]}
    \cup {[kind |-> k, value |-> v] : k \in {"bool", "tensor"}, v \in BOOLEAN}

\* backend.learning_phase() of the model: the integer 1
LearningPhase == [kind |-> "int", value |-> TRUE]

\* the value whose square root a renorm training step takes
NewVariance(l, res) ==
    IF l.virtual_batch_size # None THEN ReduceMean(res.variances)
    ELSE res.variances[1]

\* the batches of the model: an empty batch is given where zero-size inputs
\* are supported, and the square roots taken are of squares of rationals
BatchAllowed(l, xs, training, res, e) ==
    /\ xs = <<>> => e.zero_size /\ l.virtual_batch_size = None
    /\ l.renorm /\ training.value /\ xs # <<>>
          => IsSquare(RAdd(NewVariance(l, res), l.epsilon))

InitCall ==
    /\ pc = "built"
    /\ \E as \in CallLayers :
          /\ args = as[1]
          /\ shape = as[2]
          /\ layer = Build(InitLayer(as[1]), as[2])
    /\ config = NoConfig
    /\ warnings = 0
    /\ clone = NoLayer
    /\ out = NoOut
    /\ env \in Envs
    \* eager and graph execution differ on the fused path only
    /\ env.fused_avg => layer.fused = Some(TRUE)
    /\ calls = 0
    /\ replicas = NoReplicas
    /\ norm = NoNorm

\* layer(inputs, training=training_arg)
DoCallWith(inputs) ==
    /\ pc = "built"
    /\ calls < MaxCalls
    /\ \E xs \in inputs, training_arg \in TrainingArgs :
          /\ ~ReshapeRaises(layer, xs)
          /\ \E res \in {Call(layer, xs, training_arg, LearningPhase, env)},
                training \in {GetTrainingValue(layer, training_arg, LearningPhase)} :
                 /\ BatchAllowed(layer, xs, training, res, env)
                 /\ layer' = [layer EXCEPT !.weights = res.weights]
                 /\ out' = [ kind |-> "call", xs |-> xs, training |-> training,
                             old |-> layer.weights,
                             means |-> res.means, variances |-> res.variances,
                             r |-> res.r, d |-> res.d,
                             scale |-> res.scale, offset |-> res.offset,
                             updates |-> res.updates, assigns |-> res.assigns,
                             outputs |-> Outputs(layer, xs, res),
                             trainable |-> layer.trainable,
                             error |-> "" ]
    /\ calls' = calls + 1
    /\ UNCHANGED <<pc, args, shape, config, warnings, clone, env, replicas, norm>>

\* layer(xs, training=training_arg) on a batch of the model
DoCall == DoCallWith(Batches)

\* a call whose reshape into virtual batches raises
DoCallRaises ==
    /\ pc = "built"
    /\ calls < MaxCalls
    /\ \E xs \in Batches \ {<<>>} :
          /\ ReshapeRaises(layer, xs)
          /\ out' = [ kind |-> "call", xs |-> xs, error |-> "InvalidArgumentError" ]
    /\ calls' = calls + 1
    /\ UNCHANGED <<pc, args, layer, shape, config, warnings, clone, env, replicas, norm>>

NextCall == DoCall \/ DoCallRaises

SpecCall == InitCall /\ [][NextCall]_vars

-----------------------------------------------------------------------------
(* Calls on a renorm layer whose gamma and beta have been trained *)

\* values an optimizer has given to gamma and to beta
TrainedGammas == {Rat(2, 1), Rat(1, 2)}

TrainedBetas == {Rat(3, 1)}

\* the layer with its trainable weights gamma and beta, where it has them,
\* set to g and b
Trained(l, g, b) ==
    [l EXCEPT !.weights =
        [n \in DOMAIN l.weights |->
            IF n = "gamma" THEN g ELSE IF n = "beta" THEN b ELSE l.weights[n]]]

InitTrained ==
    /\ pc = "built"
    /\ \E as \in CallLayers, g \in TrainedGammas, b \in TrainedBetas :
          /\ as[1].renorm
          /\ args = as[1]
          /\ shape = as[2]
          /\ layer = Trained(Build(InitLayer(as[1]), as[2]), g, b)
    /\ config = NoConfig
    /\ warnings = 0
    /\ clone = NoLayer
    /\ out = NoOut
    /\ env \in Envs
    /\ ~env.fused_avg
    /\ calls = 0
    /\ replicas = NoReplicas
    /\ norm = NoNorm

SpecTrained == InitTrained /\ [][NextCall]_vars

-----------------------------------------------------------------------------
(* Calls on constant batches, of a layer whose gamma and beta have been
   trained *)

\* batches whose values are all equal, of sizes that virtual batching divides
ConstantBatches == { <<0, 0>>, <<0 - 2, 0 - 2>>, <<3, 3, 3, 3>> }

InitConstant ==
    /\ pc = "built"
    /\ \E as \in CallLayers, g \in TrainedGammas, b \in TrainedBetas :
          /\ args = as[1]
          /\ shape = as[2]
          /\ layer = Trained(Build(InitLayer(as[1]), as[2]), g, b)
    /\ config = NoConfig
    /\ warnings = 0
    /\ clone = NoLayer
    /\ out = NoOut
    /\ env \in Envs
    /\ env.fused_avg => layer.fused = Some(TRUE)
    /\ calls = 0
    /\ replicas = NoReplicas
    /\ norm = NoNorm

\* layer(xs, training=training_arg) on a constant batch
DoCallConstant == DoCallWith(ConstantBatches)

SpecConstant == InitConstant /\ [][DoCallConstant]_vars

-----------------------------------------------------------------------------
(* Calls on constant batches of a V2 layer whose trainable flag is toggled *)

InitFrozen == InitCall /\ args.v2

\* layer.trainable = value
DoSetTrainable ==
    /\ pc = "built"
    /\ layer' = [layer EXCEPT !.trainable = ~layer.trainable]
    /\ UNCHANGED <<pc, args, shape, config, warnings, clone, out, env, calls,
                   replicas, norm>>

NextFrozen == DoCallConstant \/ DoSetTrainable

SpecFrozen == InitFrozen /\ [][NextFrozen]_vars

-----------------------------------------------------------------------------
(* The operations of one renorm training step, in every order that the
   control dependencies and the data dependencies allow *)

RenormOps ==
    { "correction", "renorm_mean", "renorm_stddev", "release",
      "moving_mean", "moving_stddev", "moving_variance" }

\* operations that wait for nothing
NeedsNothing(op) == {}

\* the operations that must have run before op:
\* control_dependencies([r, d]) before the identities the renorm updates read,
\* control_dependencies([update_new_mean, update_new_stddev]) before out_mean
\* and out_variance, which the moving-average updates read; moving_variance
\* is assigned from the updated moving_stddev
Needs(op) ==
    CASE op = "correction"      -> {}
      [] op = "renorm_mean"     -> {"correction"}
      [] op = "renorm_stddev"   -> {"correction"}
      [] op = "release"         -> {"renorm_mean", "renorm_stddev"}
      [] op = "moving_mean"     -> {"release"}
      [] op = "moving_stddev"   -> {"release"}
      [] OTHER                  -> {"moving_stddev"}

StepTraining == [static |-> TRUE, value |-> TRUE]

\* the layer after operation op of the step o
AfterRenormOp(l, o, op) ==
    IF op \in {"renorm_mean", "renorm_stddev"}
    THEN [l EXCEPT !.weights[op] =
             UpdateRenormVariables(l, o.mean, o.variance, StepTraining,
                                   o.inputs_size)[op]]
    ELSE IF op \in {"moving_mean", "moving_stddev", "moving_variance"}
    THEN The({ [l EXCEPT !.weights =
                   ApplyUpdateOp(l, l.weights, u, o.inputs_size)] :
               u \in { v \in Range(UpdateOps(l, o.mean, o.variance, StepTraining)) :
                       v.var = op } })
    ELSE l

InitRenormStep ==
    /\ InitCall
    /\ args.renorm /\ args.v2
    /\ ~args.center /\ ~args.scale /\ args.adjustment = None

\* call(xs, training=True) reaches _renorm_correction_and_moments
BeginRenormStep ==
    /\ pc = "built"
    /\ calls < MaxCalls
    /\ \E xs \in Batches \ {<<>>} :
          /\ ~ReshapeRaises(layer, xs)
          /\ \E st \in {Statistics(layer, xs, StepTraining,
                                   InputBatchSize(layer, xs, env.zero_size))} :
                /\ IsSquare(RAdd(st.new_variance, layer.epsilon))
                /\ out' = [ kind |-> "renorm step", xs |-> xs,
                            mean |-> st.new_mean, variance |-> st.new_variance,
                            inputs_size |-> InputBatchSize(layer, xs, env.zero_size),
                            old |-> layer.weights, done |-> <<>>,
                            r |-> None, d |-> None ]
    /\ pc' = "stepping"
    /\ UNCHANGED <<args, layer, shape, config, warnings, clone, env, calls,
                   replicas, norm>>

\* one operation of the step runs
DoRenormOp ==
    /\ pc = "stepping"
    /\ \E op \in RenormOps \ Range(out.done) :
          /\ Needs(op) \subseteq Range(out.done)
          /\ layer' = AfterRenormOp(layer, out, op)
          /\ out' = IF op = "correction"
                    THEN The({ [out EXCEPT !.done = Append(@, op),
                                           !.r = Some(rd[1]), !.d = Some(rd[2])] :
                               rd \in {RenormCorrection(layer, out.mean,
                                          out.variance, StepTraining)} })
                    ELSE [out EXCEPT !.done = Append(@, op)]
          /\ pc' = IF Range(out.done) \cup {op} = RenormOps
                   THEN "built" ELSE "stepping"
          /\ calls' = IF Range(out.done) \cup {op} = RenormOps
                      THEN calls + 1 ELSE calls
    /\ UNCHANGED <<args, shape, config, warnings, clone, env, replicas, norm>>

NextRenormStep == BeginRenormStep \/ DoRenormOp

SpecRenormStep == InitRenormStep /\ [][NextRenormStep]_vars

-----------------------------------------------------------------------------
(* LayerNormalization.call: which element of gamma and beta meets which     *)
(* input position, and the collapse of the input for the fused operation.   *)
(* A position and an index are sequences of coordinates counted from 0.     *)

\* the rank of the inputs that are called
MaxCallRank == 3

\* the number of elements of a tensor of shape dims
RECURSIVE Size(_)
Size(dims) == IF dims = <<>> THEN 1 ELSE Head(dims) * Size(Tail(dims))

\* the row-major place of the element at index idx in a tensor of shape dims
RECURSIVE FlatIndex(_, _)
FlatIndex(idx, dims) ==
    IF dims = <<>> THEN 0
    ELSE Head(idx) * Size(Tail(dims)) + FlatIndex(Tail(idx), Tail(dims))

\* the indices of a tensor of shape dims
Coordinates(dims) ==
    { p \in [DOMAIN dims -> 0..(MaxCallRank + 1)] :
        \A i \in DOMAIN dims : p[i] < dims[i] }

\* the index that has row-major place f in a tensor of shape dims
Unflatten(f, dims) == The({ p \in Coordinates(dims) : FlatIndex(p, dims) = f })

\* the sizes of the tensor passed to call: every dimension is defined
TensorShape(input_shape) == [i \in DOMAIN input_shape.dims |-> DimSize(i)]

\* param_shape of build for the tensor
ParamShape(l, dims) == [j \in DOMAIN l.axis.val |-> dims[l.axis.val[j] + 1]]

\* broadcast_shape of call: the size of the input on every axis, 1 elsewhere
LayerNormBroadcastShape(l, dims) ==
    [d \in DOMAIN dims |-> IF (d - 1) \in Range(l.axis.val) THEN dims[d] ELSE 1]

\* _broadcast of call applied to a weight of shape v_shape: reshaped to
\* broadcast_shape unless it has the rank of the input or the axis is the
\* last dimension alone
LayerNormBroadcast(l, v_shape, dims) ==
    IF Len(v_shape) # Len(dims) /\ l.axis.val # <<Len(dims) - 1>>
    THEN LayerNormBroadcastShape(l, dims)
    ELSE v_shape

\* the elementwise product or sum of a tensor of shape dims with one of shape
\* bs keeps the shape dims: bs is aligned to the last dimensions and each of
\* its sizes is 1 or the size of the input
BroadcastsTo(bs, dims) ==
    /\ Len(bs) <= Len(dims)
    /\ \A j \in DOMAIN bs : bs[j] = 1 \/ bs[j] = dims[Len(dims) - Len(bs) + j]

\* the index of the element of gamma (and of beta) that the call applies at
\* input position p: the reshape keeps the row-major order of the elements
ParamIndexAt(l, p, dims) ==
    LET ps == ParamShape(l, dims)
        bs == LayerNormBroadcast(l, ps, dims)
        q == [j \in DOMAIN bs |->
                IF bs[j] = 1 THEN 0 ELSE p[Len(dims) - Len(bs) + j]]
    IN  Unflatten(FlatIndex(q, bs), ps)

\* the collapse of the fused branch of call: pre_dim is the product of the
\* sizes before the smallest axis, in_dim the product of the others; asserted
\* tells whether every 'assert dim in axis' holds
Collapse(l, dims) ==
    LET axes == Range(l.axis.val)
        lo == CHOOSE x \in axes : \A y \in axes : x <= y
        pre == [d \in DOMAIN dims |-> IF d - 1 < lo THEN dims[d] ELSE 1]
        inn == [d \in DOMAIN dims |-> IF d - 1 < lo THEN 1 ELSE dims[d]]
    IN  [ pre_dim |-> Size(pre), in_dim |-> Size(inn),
          asserted |-> \A d \in DOMAIN dims : d - 1 >= lo => (d - 1) \in axes ]

\* LayerNormalization.call on a tensor of shape dims
LayerNormCall(l, dims) ==
    LET c == Collapse(l, dims)
        bs == LayerNormBroadcast(l, ParamShape(l, dims), dims)
        r == [ kind |-> "layernorm call", error |-> "", dims |-> dims,
               fused |-> Get(l.fused), broadcast |-> bs,
               pre_dim |-> 0, in_dim |-> 0, squeezed_shape |-> <<>>,
               param_at |-> <<>> ]
        collapsed ==
            IF Get(l.fused)
            THEN [r EXCEPT !.pre_dim = c.pre_dim, !.in_dim = c.in_dim,
                           !.squeezed_shape = <<1, c.pre_dim, c.in_dim, 1>>]
            ELSE r
    IN  IF Get(l.fused) /\ ~c.asserted THEN Raise(r, "AssertionError")
        ELSE IF Get(l.fused) /\ Size(collapsed.squeezed_shape) # Size(dims)
        THEN Raise(collapsed, "InvalidArgumentError")
        ELSE IF l.weights # {} /\ ~BroadcastsTo(bs, dims)
        THEN Raise(collapsed, "InvalidArgumentError")
        ELSE IF l.weights = {} THEN collapsed
        ELSE [collapsed EXCEPT
                !.param_at = [p \in Coordinates(dims) |-> ParamIndexAt(l, p, dims)]]

LayerNormCallArgs ==
    [ axis : {a \in AxisArgs : a.kind # "other"},
      epsilon : {EpsilonArg, Rat(1, 1000000)}, center : BOOLEAN,
      scale : BOOLEAN, dtype : {"float32", "float16"} ]

LayerNormCallShapes == { s \in Shapes : s.known /\ Len(s.dims) <= MaxCallRank }

\* a LayerNormalization layer has been constructed
InitLayerNorm ==
    /\ pc = "layernorm constructed"
    /\ args \in LayerNormCallArgs
    /\ layer = LayerNormInit(args)
    /\ shape = NoShape
    /\ config = NoConfig
    /\ warnings = 0
    /\ clone = NoLayer
    /\ out = NoOut
    /\ env = NoEnv
    /\ calls = 0
    /\ replicas = NoReplicas
    /\ norm = NoNorm

\* LayerNormalization.build on one of the shapes
DoBuildLayerNormOn(shapes) ==
    /\ pc = "layernorm constructed"
    /\ \E s \in shapes :
          /\ s.known
          /\ shape' = s
          /\ \E l \in {LayerNormBuild(layer, s)} :
                /\ layer' = l
                /\ pc' = IF Raised(l) THEN "layernorm failed" ELSE "layernorm built"
    /\ UNCHANGED <<args, config, warnings, clone, out, env, calls, replicas, norm>>

DoBuildLayerNormToCall == DoBuildLayerNormOn(LayerNormCallShapes)

\* the layer is called on a tensor of the shape it was built on; the sizes of
\* the axes were defined at build
DoCallLayerNorm ==
    /\ pc = "layernorm built"
    /\ \A i \in DOMAIN Get(layer.param_shape) : Get(layer.param_shape)[i] # None
    /\ out' = LayerNormCall(layer, TensorShape(shape))
    /\ pc' = "layernorm called"
    /\ UNCHANGED <<args, layer, shape, config, warnings, clone, env, calls,
                   replicas, norm>>

NextLayerNorm == DoBuildLayerNormToCall \/ DoCallLayerNorm

SpecLayerNorm == InitLayerNorm /\ [][NextLayerNorm]_vars

-----------------------------------------------------------------------------
(* Replicas of a moving statistic under a distribution strategy *)

\* the value of the statistic when the replicas start
StartValues == {Zero, Rat(1, 1)}

\* the statistic a replica computes from its local batch
LocalStatistics == {Zero, Rat(2, 1), Rat(0 - 3, 1)}

\* the momentum the layer was constructed with
ReplicaMomenta == {Zero, Rat(1, 2), MomentumArg}

\* synchronization=ON_READ: every replica holds its own copy of the
\* variable, created from the same initializer
InitReplicas ==
    /\ pc = "replicated"
    /\ args = NoArgs
    /\ layer = NoLayer
    /\ shape = NoShape
    /\ config = NoConfig
    /\ warnings = 0
    /\ clone = NoLayer
    /\ out = NoOut
    /\ env = NoEnv
    /\ calls = 0
    /\ norm = NoNorm
    /\ \E k \in 1..MaxReplicas, v \in StartValues, m \in ReplicaMomenta :
          \E stats \in [1..k -> LocalStatistics] :
             replicas = [ start    |-> v,
                          momentum |-> m,
                          stats    |-> stats,
                          copies   |-> [i \in 1..k |-> v],
                          steps    |-> [i \in 1..k |-> 0] ]

\* one training step of replica i: _assign_moving_average on its own copy
ReplicaUpdate(i) ==
    /\ pc = "replicated"
    /\ replicas.steps[i] < MaxSteps
    /\ replicas' =
         [replicas EXCEPT
            !.copies[i] = AssignMovingAverage(@, replicas.stats[i],
                                              replicas.momentum, None),
            !.steps[i]  = @ + 1]
    /\ UNCHANGED <<pc, args, layer, shape, config, warnings, clone, out, env,
                   calls, norm>>

ReplicaStep == \E i \in DOMAIN replicas.copies : ReplicaUpdate(i)

\* aggregation=MEAN: the value read outside the replicas
ReadAggregated(r) == ReduceMean(r.copies)

SpecReplicas == InitReplicas /\ [][ReplicaStep]_vars

-----------------------------------------------------------------------------
(* The adapt-based Normalization layer of
   keras/layers/preprocessing/normalization.py *)

\* examples of shape (2, 3)
Example1 == <<<<0, 1, 2>>, <<0, 2, 6>>>>

Example2 == <<<<2, 3, 4>>, <<3, 6, 10>>>>

Example3 == <<<<1, 0, 3>>, <<2, 3, 4>>>>

Example4 == <<<<3, 0 - 1, 5>>, <<4, 5, 8>>>>

\* rank-3 data sets: sequences of examples
DataSets ==
    { <<Example1, Example2>>,
      <<Example1, Example2, Example3, Example4>>,
      <<Example1, Example1, Example2, Example4>>,
      <<Example3, Example4, Example3>> }

\* the axis argument: a tuple of the axes that keep their own statistics
\* (the empty tuple stands for axis=None)
NormAxisArgs ==
    {<<1, 2>>, <<2, 1>>, <<1, 0 - 1>>, <<0 - 1, 1>>, <<0 - 1>>, <<1>>, <<>>,
     <<0>>, <<0 - 1, 0>>, <<0, 2>>}

\* the sizes of the batches a data set is served in
BatchSizes == {1, 2}

\* the shape of a rank-3 tensor
ShapeOf(t) == <<Len(t), Len(t[1]), Len(t[1][1])>>

\* the indices of a tensor of that shape, counted from 0
Indices(sh) ==
    {<<b, i, j>> : b \in 0..(sh[1] - 1), i \in 0..(sh[2] - 1),
                   j \in 0..(sh[3] - 1)}

At(t, idx) == t[idx[1] + 1][idx[2] + 1][idx[3] + 1]

RECURSIVE Ascending(_)
Ascending(S) ==
    IF S = {} THEN <<>>
    ELSE The({ <<m>> \o Ascending(S \ {m}) :
               m \in {x \in S : \A y \in S : x <= y} })

\* keeping the axes as they were written, unresolved and unsorted
KeepAxisAsGiven(axis, ndim) == axis

\* the kept axes: each entry resolved against the rank, then sorted
KeepAxis(axis, ndim) ==
    Ascending({ IF d >= 0 THEN d ELSE d + ndim : d \in Range(axis) })

\* the axes the statistics are reduced over
ReduceAxis(keep_axis, ndim) ==
    {d \in 0..(ndim - 1) : d \notin Range(keep_axis)}

\* the position of an element's statistics: reduced axes keep size 1
StatKey(idx, reduce_axis) ==
    [d \in DOMAIN idx |-> IF (d - 1) \in reduce_axis THEN 0 ELSE idx[d]]

StatKeys(sh, reduce_axis) == {StatKey(idx, reduce_axis) : idx \in Indices(sh)}

\* a constructor that looks for 0 in the first place of axis only
NormInitFirstEntryOnly(axis) ==
    [ axis |-> axis, keep_axis |-> <<>>, reduce_axis |-> {},
      count |-> 0, mean |-> <<>>, variance |-> <<>>, built |-> FALSE,
      error |-> IF axis # <<>> /\ axis[1] = 0 THEN "ValueError" ELSE "" ]

\* a Normalization layer after __init__, which raises ValueError
\* ("The argument 'axis' may not be 0.") when axis is or contains 0
NormInit(axis) ==
    [ axis |-> axis, keep_axis |-> <<>>, reduce_axis |-> {},
      count |-> 0, mean |-> <<>>, variance |-> <<>>, built |-> FALSE,
      error |-> IF 0 \in Range(axis) THEN "ValueError" ELSE "" ]

\* build: the kept and reduced axes; mean starts at 0, variance at 1,
\* count at 0
NormBuild(l, sh) ==
    The({ [l EXCEPT !.keep_axis = keep,
                    !.reduce_axis = ReduceAxis(keep, Len(sh)),
                    !.mean = [k \in StatKeys(sh, ReduceAxis(keep, Len(sh)))
                                 |-> Zero],
                    !.variance = [k \in StatKeys(sh, ReduceAxis(keep, Len(sh)))
                                     |-> One],
                    !.built = TRUE] :
          keep \in {KeepAxis(l.axis, Len(sh))} })

RECURSIVE SumAt(_, _)
SumAt(t, I) ==
    IF I = {} THEN 0
    ELSE The({ At(t, idx) + SumAt(t, I \ {idx}) : idx \in {The(I)} })

RECURSIVE SumSquaresAt(_, _)
SumSquaresAt(t, I) ==
    IF I = {} THEN 0
    ELSE The({ At(t, idx) * At(t, idx) + SumSquaresAt(t, I \ {idx}) :
               idx \in {The(I)} })

\* the elements of a batch that share the statistics at key
Group(t, reduce_axis, key) ==
    {idx \in Indices(ShapeOf(t)) : StatKey(idx, reduce_axis) = key}

\* mean and population variance of a batch at key, over the reduced axes
BatchMoment(t, reduce_axis, key) ==
    The({ The({ <<mean, RSub(Rat(SumSquaresAt(t, I), Cardinality(I)),
                             RMul(mean, mean))>> :
                mean \in {Rat(SumAt(t, I), Cardinality(I))} }) :
          I \in {Group(t, reduce_axis, key)} })

\* the number of elements of a batch that one statistic is computed over
BatchCount(t, reduce_axis) ==
    Cardinality(Group(t, reduce_axis, [d \in 1..3 |-> 0]))

\* the statistics of two disjoint parts combined by their counts:
\* <<mean, variance>> of the union
CombineUnweighted(count_a, a, count_b, b) ==
    <<RDiv(RAdd(a[1], b[1]), Rat(2, 1)), RDiv(RAdd(a[2], b[2]), Rat(2, 1))>>

Combine(count_a, a, count_b, b) ==
    The({ The({ << mean,
                   RAdd(RMul(RAdd(a[2], RMul(RSub(a[1], mean), RSub(a[1], mean))),
                             Rat(count_a, total)),
                        RMul(RAdd(b[2], RMul(RSub(b[1], mean), RSub(b[1], mean))),
                             Rat(count_b, total))) >> :
                mean \in {RAdd(RMul(a[1], Rat(count_a, total)),
                               RMul(b[1], Rat(count_b, total)))} }) :
          total \in {count_a + count_b} })

\* update_state: one batch folded into the layer's statistics
UpdateState(l, t) ==
    The({ [l EXCEPT
             !.count = l.count + n,
             !.mean = [k \in DOMAIN l.mean |->
                          Combine(l.count, <<l.mean[k], l.variance[k]>>,
                                  n, BatchMoment(t, l.reduce_axis, k))[1]],
             !.variance = [k \in DOMAIN l.mean |->
                          Combine(l.count, <<l.mean[k], l.variance[k]>>,
                                  n, BatchMoment(t, l.reduce_axis, k))[2]]] :
          n \in {BatchCount(t, l.reduce_axis)} })

\* Dataset.batch(size): the last batch may be smaller
RECURSIVE Batched(_, _)
Batched(data, size) ==
    IF Len(data) <= size THEN (IF data = <<>> THEN <<>> ELSE <<data>>)
    ELSE <<SubSeq(data, 1, size)>>
            \o Batched(SubSeq(data, size + 1, Len(data)), size)

\* Dataset.shard(k, i): every k-th batch, starting with batch i (from 0)
RECURSIVE Shard(_, _, _)
Shard(batches, k, i) ==
    IF Len(batches) <= i THEN <<>>
    ELSE <<batches[i + 1]>>
            \o Shard(SubSeq(batches, k + 1, Len(batches)), k, i)

\* adapt: build on the first batch, then update_state on every batch
RECURSIVE UpdateStates(_, _)
UpdateStates(l, batches) ==
    IF batches = <<>> THEN l
    ELSE UpdateStates(UpdateState(l, Head(batches)), Tail(batches))

Adapt(l, batches, sh) == UpdateStates(NormBuild(l, sh), batches)

\* merge_state: the statistics of the layer and of the others combined by
\* their counts, one layer after the other
RECURSIVE MergeState(_, _)
MergeState(l, others) ==
    IF others = <<>> THEN l
    ELSE The({ MergeState(
                 IF l.count + o.count = 0 THEN l
                 ELSE [l EXCEPT
                         !.count = l.count + o.count,
                         !.mean = [k \in DOMAIN l.mean |->
                            Combine(l.count, <<l.mean[k], l.variance[k]>>,
                                    o.count, <<o.mean[k], o.variance[k]>>)[1]],
                         !.variance = [k \in DOMAIN l.mean |->
                            Combine(l.count, <<l.mean[k], l.variance[k]>>,
                                    o.count, <<o.mean[k], o.variance[k]>>)[2]]],
                 Tail(others)) :
               o \in {Head(others)} })

Sign(a) == IF a[1] > 0 THEN 1 ELSE IF a[1] < 0 THEN 0 - 1 ELSE 0

\* (x - mean) / maximum(sqrt(variance), epsilon), kept exact: the value is
\* sign * sqrt(square), divided by epsilon where the variance is 0
NormalizedValue(x, mean, variance) ==
    The({ [ sign   |-> Sign(dev),
            square |-> RDiv(RMul(dev, dev),
                            IF variance = Zero THEN One ELSE variance),
            over_epsilon |-> (variance = Zero) ] :
          dev \in {RSub(Rat(x, 1), mean)} })

\* call: every element normalized with the statistics of its position
NormCall(l, t) ==
    [idx \in Indices(ShapeOf(t)) |->
        NormalizedValue(At(t, idx), l.mean[StatKey(idx, l.reduce_axis)],
                        l.variance[StatKey(idx, l.reduce_axis)])]

\* layer 1 is adapted on the whole data set, layer i + 1 on its shard i
NormBatches == Batched(norm.data, norm.batch_size)

BatchesOf(i) ==
    IF i = 1 THEN NormBatches ELSE Shard(NormBatches, norm.shards, i - 2)

InitNorm ==
    /\ pc = "no layers"
    /\ args = NoArgs
    /\ layer = NoLayer
    /\ shape = NoShape
    /\ config = NoConfig
    /\ warnings = 0
    /\ clone = NoLayer
    /\ out = NoOut
    /\ env = NoEnv
    /\ calls = 0
    /\ replicas = NoReplicas
    /\ \E data \in DataSets, size \in BatchSizes, k \in 1..MaxShards :
          \* every shard holds a batch
          /\ k <= Len(Batched(data, size))
          /\ norm = [ data |-> data, batch_size |-> size, shards |-> k,
                      layers |-> <<>>, adapted |-> {}, merged |-> FALSE ]

\* Normalization(axis=axis) for the layer on the whole data set and for the
\* layer on each shard
DoConstructNorm ==
    /\ pc = "no layers"
    /\ \E axis \in NormAxisArgs :
          /\ norm' = [norm EXCEPT
                        !.layers = [i \in 1..(norm.shards + 1) |-> NormInit(axis)]]
          /\ pc' = IF NormInit(axis).error # "" THEN "rejected" ELSE "adapting"
    /\ UNCHANGED <<args, layer, shape, config, warnings, clone, out, env,
                   calls, replicas>>

\* layer.adapt(dataset)
DoAdapt ==
    /\ pc = "adapting"
    /\ \E i \in DOMAIN norm.layers \ norm.adapted :
          norm' = [norm EXCEPT
                     !.layers[i] = Adapt(@, BatchesOf(i), ShapeOf(norm.data)),
                     !.adapted = @ \cup {i}]
    /\ UNCHANGED <<pc, args, layer, shape, config, warnings, clone, out, env,
                   calls, replicas>>

\* norm_1.merge_state([norm_2, ...]) on the adapted shard layers
DoMergeState ==
    /\ pc = "adapting"
    /\ ~norm.merged
    /\ (DOMAIN norm.layers) \ {1} \subseteq norm.adapted
    /\ norm' = [norm EXCEPT
                  !.layers[2] = MergeState(@, SubSeq(norm.layers, 3,
                                                     Len(norm.layers))),
                  !.merged = TRUE]
    /\ UNCHANGED <<pc, args, layer, shape, config, warnings, clone, out, env,
                   calls, replicas>>

\* layer(data) on an adapted layer
DoNormalize ==
    /\ pc = "adapting"
    /\ \E i \in norm.adapted :
          out' = [ kind |-> "normalized", layer |-> i,
                   value |-> NormCall(norm.layers[i], norm.data) ]
    /\ UNCHANGED <<pc, args, layer, shape, config, warnings, clone, env, calls,
                   replicas, norm>>

NextNorm == DoConstructNorm \/ DoAdapt \/ DoMergeState \/ DoNormalize

SpecNorm == InitNorm /\ [][NextNorm]_vars

-----------------------------------------------------------------------------
(* Claims about construction, build and get_config (specification Spec) *)

Ndims == Len(shape.dims)

\* the dimension an axis entry denotes on an input of rank n
Resolved(a, n) == IF a < 0 THEN a + n ELSE a

\* the axis argument is an int or a list of ints (a tuple is C30's case)
IntOrList == args.axis.kind \in {"int", "list"}

\* every entry lies in -n..n-1 and no two denote the same dimension
AxisArgValid(n) ==
    /\ \A i \in DOMAIN args.axis.val : 0 - n <= args.axis.val[i] /\ args.axis.val[i] < n
    /\ \A i, j \in DOMAIN args.axis.val :
          i # j => Resolved(args.axis.val[i], n) # Resolved(args.axis.val[j], n)

ResolvedAxes == {Resolved(args.axis.val[i], Ndims) : i \in DOMAIN args.axis.val}

\* C2 (as the claim states it; the code violates it): in V2 behaviour a layer
\* constructed with fused=True never ends built with self.fused False.
C2_FusedTrueNeverFallsBack ==
    (pc = "built" /\ args.v2 /\ args.fused = Some(TRUE) /\ IntOrList)
        => layer.fused = Some(TRUE)

\* the other conditions build checks: virtual batch size, adjustment, defined
\* axis dimensions
OtherBuildChecksPass ==
    /\ args.virtual_batch_size # None =>
          /\ Get(args.virtual_batch_size) > 0
          /\ 0 \notin ResolvedAxes
          /\ args.adjustment = None
    /\ \A x \in ResolvedAxes : shape.dims[x + 1] # None

\* some condition of the fused path is violated
FusedInfeasible ==
    \/ args.renorm
    \/ args.virtual_batch_size # None
    \/ args.adjustment # None
    \/ args.dtype \notin FusedDtypes
    \/ Len(args.axis.val) # 1
    \/ <<Ndims, Resolved(args.axis.val[1], Ndims)>>
          \notin {<<4, 1>>, <<4, 3>>, <<5, 1>>, <<5, 4>>}

\* C3 (as the claim states it; the code violates it): in V2 behaviour, with
\* fused=None, a valid axis and a defined rank, build succeeds, and self.fused
\* is False whenever a fused-path condition is violated.
C3_FusedNoneFallsBackSilently ==
    (/\ pc \in {"built", "failed"} /\ args.v2 /\ args.fused = None /\ IntOrList
     /\ shape.known /\ Ndims > 0 /\ AxisArgValid(Ndims) /\ OtherBuildChecksPass)
        => /\ pc = "built"
           /\ FusedInfeasible => layer.fused = Some(FALSE)

\* C6: whenever build raises, no weight has been created and the layer is
\* not marked built.
C6_FailedBuildAllocatesNothing ==
    pc = "failed" => DOMAIN layer.weights = {} /\ ~layer.built

\* C6's case: build raised at its last validation, the undefined axis dimension
C6_Witness ==
    /\ pc = "failed" /\ layer.error = "ValueError"
    /\ shape.known /\ Ndims > 0 /\ AxisArgValid(Ndims)
    /\ \E x \in ResolvedAxes : shape.dims[x + 1] = None
    /\ layer.fused = Some(FALSE) /\ args.virtual_batch_size = None

\* C7 (as the claim states it; the code violates it): the layer made from
\* get_config() and built on the same input shape has the same resolved axis,
\* parameter shape, momentum, epsilon, center, scale, renorm settings and
\* virtual_batch_size as the original.
C7_ConfigRoundTrip ==
    (pc = "reloaded" /\ IntOrList)
        => /\ ~Raised(clone) /\ clone.built
           /\ clone.axis = layer.axis
           /\ clone.param_shape = layer.param_shape
           /\ clone.momentum = layer.momentum
           /\ clone.epsilon = layer.epsilon
           /\ clone.center = layer.center
           /\ clone.scale = layer.scale
           /\ clone.renorm = layer.renorm
           /\ clone.renorm_clipping = layer.renorm_clipping
           /\ clone.renorm_momentum = layer.renorm_momentum
           /\ clone.virtual_batch_size = layer.virtual_batch_size

Configured == pc \in {"configured", "configured unbuilt"}

RenormKeys == {"renorm", "renorm_clipping", "renorm_momentum"}

\* C8: get_config never contains the adjustment function, it warns exactly
\* when adjustment is set, the renorm keys are present iff renorm is enabled
\* and virtual_batch_size is present iff it is not None.
C8_ConfigKeys ==
    Configured
        => /\ "adjustment" \notin Keys(config)
           /\ Keys(config) \subseteq
                 {"axis", "momentum", "epsilon", "center", "scale", "trainable",
                  "dtype", "virtual_batch_size"} \cup RenormKeys
           /\ (warnings = 1) <=> (layer.adjustment # None)
           /\ (warnings = 0) <=> (layer.adjustment = None)
           /\ \A k \in RenormKeys : (k \in Keys(config)) <=> layer.renorm
           /\ layer.renorm => /\ config["renorm"] = Some(TRUE)
                              /\ config["renorm_clipping"] = layer.renorm_clipping
                              /\ config["renorm_momentum"] = layer.renorm_momentum
           /\ ("virtual_batch_size" \in Keys(config)) <=> (layer.virtual_batch_size # None)
           /\ config["virtual_batch_size"] = layer.virtual_batch_size

\* C8's case: a layer with adjustment, renorm and a virtual batch size was
\* asked for its config
C8_Witness ==
    /\ Configured /\ layer.adjustment # None /\ layer.renorm
    /\ layer.virtual_batch_size # None /\ warnings = 1

\* construction or build has ended, with a layer or with an exception
Ended == pc \in {"rejected", "failed", "built"}

\* the arguments break a condition of virtual batching: the size is not
\* positive, an adjustment is given, or (on an input of known rank with a
\* valid axis) dimension 0 is normalized
BreaksVirtualBatching ==
    /\ args.virtual_batch_size # None
    /\ \/ ~(Get(args.virtual_batch_size) > 0)
       \/ args.adjustment # None
       \/ /\ pc # "rejected" /\ shape.known /\ Ndims > 0
          /\ AxisArgValid(Ndims) /\ 0 \in ResolvedAxes

\* the built layer keeps the conditions of virtual batching
VirtualBatchingInvariant ==
    (pc = "built" /\ layer.virtual_batch_size # None)
        => /\ Get(layer.virtual_batch_size) > 0
           /\ 0 \notin ResolvedAxes
           /\ \A i \in DOMAIN layer.axis.val : layer.axis.val[i] > 1
           /\ layer.adjustment = None
           /\ layer.fused = Some(FALSE)

\* C14 (as the claim states it; the code violates it for a tuple axis):
\* every layer built with virtual_batch_size set has virtual_batch_size > 0,
\* no normalization axis 0, no adjustment and the fused path disabled, and
\* every other combination raised ValueError at construction or build.
C14_VirtualBatchingConditions ==
    /\ VirtualBatchingInvariant
    /\ (Ended /\ args.axis.kind # "other" /\ BreaksVirtualBatching)
          => pc # "built" /\ layer.error = "ValueError"

\* the same for an axis given as an int or a list
C14_ForIntOrList ==
    /\ VirtualBatchingInvariant
    /\ (Ended /\ IntOrList /\ BreaksVirtualBatching)
          => pc # "built" /\ layer.error = "ValueError"

\* the axes of the argument as their non-negative equivalents on the input
NonNegativeAxes == [i \in DOMAIN args.axis.val |-> Resolved(args.axis.val[i], Ndims)]

\* BatchNormalization.build ran on an input of known rank, the axis being
\* an int or a list
BatchNormBuildEnded == pc \in {"built", "failed"} /\ shape.known /\ IntOrList

\* a check of BatchNormalization.build other than the axis validation may
\* apply: virtual batch size, fused path, undefined axis dimension
OtherBuildCheckApplies ==
    \/ args.virtual_batch_size # None
    \/ args.fused # Some(FALSE)
    \/ \E x \in ResolvedAxes : shape.dims[x + 1] = None

\* build raises ValueError for an axis out of range or a duplicate axis, and
\* for a valid axis only where another check applies
BatchNormAxisValidation ==
    BatchNormBuildEnded
    => /\ ~AxisArgValid(Ndims) => pc = "failed" /\ layer.error = "ValueError"
       /\ (AxisArgValid(Ndims) /\ pc = "failed") => OtherBuildCheckApplies

LayerNormBuildEnded == pc \in {"layernorm built", "layernorm failed"}

\* the claim for LayerNormalization, which holds: build raises ValueError
\* iff the axis is out of range or duplicate, and stores the non-negative
\* equivalents otherwise
LayerNormAxisValidation ==
    LayerNormBuildEnded
    => /\ (pc = "layernorm failed" /\ layer.error = "ValueError")
             <=> ~AxisArgValid(Ndims)
       /\ pc = "layernorm built" <=> AxisArgValid(Ndims)
       /\ pc = "layernorm built" => layer.axis.val = NonNegativeAxes

\* C15 (as the claim states it; the code violates it under virtual batching):
\* for BatchNormalization and LayerNormalization, build on an input of rank n
\* raises ValueError iff an axis is outside -n..n-1 or two axes denote the
\* same dimension; otherwise every axis is stored as its non-negative
\* equivalent.
C15_AxisValidationAndStorage ==
    /\ BatchNormAxisValidation
    /\ (BatchNormBuildEnded /\ pc = "built") => layer.axis.val = NonNegativeAxes
    /\ LayerNormAxisValidation

\* the same, the stored axes being claimed without virtual batching only
C15_WithoutVirtualBatching ==
    /\ BatchNormAxisValidation
    /\ (BatchNormBuildEnded /\ pc = "built" /\ layer.virtual_batch_size = None)
          => layer.axis.val = NonNegativeAxes
    /\ LayerNormAxisValidation

\* the weights a built layer has
WeightNames ==
    {"moving_mean", "moving_variance"}
    \cup (IF args.scale THEN {"gamma"} ELSE {})
    \cup (IF args.center THEN {"beta"} ELSE {})
    \cup (IF args.renorm THEN {"moving_stddev", "renorm_mean", "renorm_stddev"}
          ELSE {})

\* the input's size at each normalized axis and 1 elsewhere
BroadcastShape ==
    [i \in 1..Ndims |->
        IF (i - 1) \in ResolvedAxes THEN Get(shape.dims[i]) ELSE 1]

\* C16: after a successful build every weight has the same shape: (size of
\* the axis,) for one normalized axis without virtual batching; otherwise the
\* input's size at each normalized axis and 1 elsewhere, with one more 1
\* inserted at index 1 under virtual batching.
C16_WeightShapes ==
    pc = "built"
    => /\ DOMAIN layer.weight_shapes = WeightNames
       /\ DOMAIN layer.weights = WeightNames
       /\ \A n \in WeightNames :
             layer.weight_shapes[n] =
                IF Cardinality(ResolvedAxes) = 1 /\ args.virtual_batch_size = None
                THEN <<Get(shape.dims[Resolved(args.axis.val[1], Ndims) + 1])>>
                ELSE IF args.virtual_batch_size = None THEN BroadcastShape
                ELSE <<BroadcastShape[1], 1>> \o SubSeq(BroadcastShape, 2, Ndims)

\* a built renorm layer with gamma and beta that normalizes two axes under
\* virtual batching: seven weights of one shape, one longer than the rank
C16_Witness ==
    /\ pc = "built" /\ args.renorm /\ args.scale /\ args.center
    /\ args.virtual_batch_size # None
    /\ Cardinality(ResolvedAxes) = 2
    /\ Cardinality(DOMAIN layer.weight_shapes) = 7
    /\ \A n \in WeightNames : Len(layer.weight_shapes[n]) = Ndims + 1

-----------------------------------------------------------------------------
(* Claims about call (specification SpecCall) *)

Called == out.kind = "call" /\ out.error = ""

GenericPath == layer.fused # Some(TRUE)

InTraining == out.training.value

Blend(old, stat) ==
    RAdd(RMul(layer.momentum, old), RMul(RSub(One, layer.momentum), stat))

\* mean and variance of the whole batch
BatchMean == CalculateMeanAndVar(out.xs)[1]

BatchVariance == CalculateMeanAndVar(out.xs)[2]

\* the virtual batches of the batch; the batch itself without virtual batching
Groups ==
    IF layer.virtual_batch_size = None THEN <<out.xs>>
    ELSE VirtualBatches(out.xs, Get(layer.virtual_batch_size))

\* the means, over the virtual batches, of their means and of their variances
GroupsMean == ReduceMean([j \in DOMAIN Groups |-> CalculateMeanAndVar(Groups[j])[1]])

GroupsVariance ==
    ReduceMean([j \in DOMAIN Groups |-> CalculateMeanAndVar(Groups[j])[2]])

C4_InferenceLeavesStatistics ==
    Called /\ ~InTraining
    => /\ layer.weights = out.old
       /\ \A j \in DOMAIN out.means : out.means[j] = out.old["moving_mean"]
       /\ \A j \in DOMAIN out.variances :
             out.variances[j] = out.old["moving_variance"]

\* an inference call on the generic path after a training call that moved
\* the statistics away from the batch's
C4_Witness ==
    /\ Called /\ ~InTraining /\ GenericPath /\ out.training.static
    /\ out.xs # <<>>
    /\ out.old["moving_mean"] # Zero
    /\ out.old["moving_mean"] # BatchMean

\* C5 as stated: with the batch size known and the batch empty, a training
\* call leaves every running statistic unchanged, on every path.
C5_EmptyBatchLeavesStatistics ==
    Called /\ InTraining /\ env.zero_size /\ out.xs = <<>>
    => layer.weights = out.old

\* the clipping bounds of the layer are in order
BoundsInOrder ==
    LET clip == Get(layer.renorm_clipping)
    IN  /\ clip["rmin"] # None /\ clip["rmax"] # None
             => RLe(Get(clip["rmin"]), Get(clip["rmax"]))
        /\ clip["dmax"] # None => RLe(Zero, Get(clip["dmax"]))

\* the corrections before clipping, from the statistics before the call
UnclippedR ==
    RDiv(RSqrt(RAdd(IF out.xs = <<>> THEN Zero ELSE GroupsVariance, layer.epsilon)),
         RMax(out.old["renorm_stddev"], RSqrt(layer.epsilon)))

UnclippedD ==
    RDiv(RSub(IF out.xs = <<>> THEN Zero ELSE GroupsMean, out.old["renorm_mean"]),
         RMax(out.old["renorm_stddev"], RSqrt(layer.epsilon)))

\* C9: in a renorm training step whose bounds are in order, r lies between
\* rmin and rmax and d between -dmax and dmax, for the bounds that are
\* configured; r is never negative, and r and d are the unclipped corrections
\* clipped with 0 for a missing rmin and nothing for a missing rmax or dmax.
C9_CorrectionWithinBounds ==
    Called /\ GenericPath /\ layer.renorm /\ InTraining /\ BoundsInOrder
    => LET clip == Get(layer.renorm_clipping)
           r == Get(out.r)
           d == Get(out.d)
           lo == RMax(UnclippedR,
                      IF clip["rmin"] # None THEN Get(clip["rmin"]) ELSE Zero)
       IN  /\ clip["rmin"] # None => RLe(Get(clip["rmin"]), r)
           /\ clip["rmax"] # None => RLe(r, Get(clip["rmax"]))
           /\ clip["dmax"] # None
                => RLe(RNeg(Get(clip["dmax"])), d) /\ RLe(d, Get(clip["dmax"]))
           /\ RLe(Zero, r)
           /\ r = IF clip["rmax"] # None THEN RMin(lo, Get(clip["rmax"])) ELSE lo
           /\ d = IF clip["dmax"] # None
                  THEN RMin(RMax(UnclippedD, RNeg(Get(clip["dmax"]))),
                            Get(clip["dmax"]))
                  ELSE UnclippedD

\* a training step whose corrections exceed rmax and dmax and are clipped
C9_Witness ==
    /\ Called /\ GenericPath /\ layer.renorm /\ InTraining /\ BoundsInOrder
    /\ Get(layer.renorm_clipping)["rmax"] = Some(Rat(2, 1))
    /\ Get(layer.renorm_clipping)["dmax"] = Some(One)
    /\ RLt(Rat(2, 1), UnclippedR) /\ RLt(One, UnclippedD)
    /\ out.r = Some(Rat(2, 1)) /\ out.d = Some(One)

\* the scale and offset a call applies, 1 and 0 where it applies none
Applied(scale, offset) ==
    <<IF scale = None THEN One ELSE Get(scale),
      IF offset = None THEN Zero ELSE Get(offset)>>

\* C10: under renorm a call with training false, known when traced or not,
\* applies the correction r = 1, d = 0 whatever the clipping bounds are (no
\* correction when training is known to be false), so that the scale and
\* offset are those of the adjustment-free layer, and leaves renorm_mean and
\* renorm_stddev as they were.
C10_NoCorrectionInInference ==
    Called /\ GenericPath /\ layer.renorm /\ ~InTraining
    => /\ out.r \in {None, Some(One)}
       /\ out.d \in {None, Some(Zero)}
       /\ ~out.training.static => out.r = Some(One) /\ out.d = Some(Zero)
       /\ Applied(out.scale, out.offset)
             = Applied(Weight(layer, "gamma"), Weight(layer, "beta"))
       /\ layer.weights["renorm_mean"] = out.old["renorm_mean"]
       /\ layer.weights["renorm_stddev"] = out.old["renorm_stddev"]

\* a call with training false decided at run time, on a layer whose rmin is
\* above 1 and whose renorm statistics an earlier training call has moved
C10_Witness ==
    /\ Called /\ GenericPath /\ layer.renorm /\ ~InTraining
    /\ ~out.training.static
    /\ Get(layer.renorm_clipping)["rmin"] = Some(Rat(2, 1))
    /\ out.r = Some(One) /\ out.d = Some(Zero)
    /\ out.old["renorm_mean"] # Zero

\* a training call on the generic path of a layer with virtual batching
VirtualTraining ==
    Called /\ GenericPath /\ InTraining /\ layer.virtual_batch_size # None

\* the reduction axes of the call: the reshaped inputs have one dimension
\* more than the input shape
CallReductionAxes == Range(ReductionAxes(layer, Ndims + 1))

\* C12 as stated: with virtual batching the statistics on the input reshaped
\* to [V, batch/V, ...] are computed with dimension 1 among the reduction axes.
C12_Dimension1Reduced ==
    VirtualTraining => 1 \in CallReductionAxes

\* C12, amended: with virtual batching the statistics on the input reshaped to
\* [V, batch/V, ...] are computed with dimension 1 excluded from the reduction
\* axes, which are dimension 0 and the other non-normalized axes: there is one
\* mean and one variance per index j of dimension 1, those of the V elements
\* j, j + batch/V, j + 2 * batch/V, ...
C12_Dimension1NotReduced ==
    VirtualTraining
    => LET v == Get(layer.virtual_batch_size)
           cols == Len(out.xs) \div v
           Column(j) == [i \in 1..v |-> out.xs[(i - 1) * cols + j]]
       IN  /\ 1 \notin CallReductionAxes
           /\ 0 \in CallReductionAxes
           /\ \A i \in 2..Ndims :
                 i \in CallReductionAxes <=> i \notin Range(layer.axis.val)
           /\ Len(out.means) = cols /\ Len(out.variances) = cols
           /\ \A j \in 1..cols :
                 /\ out.means[j] = CalculateMeanAndVar(Column(j))[1]
                 /\ out.variances[j] = CalculateMeanAndVar(Column(j))[2]

\* a training call with V = 2 on a rank-4 input of six examples: three
\* statistics, each over two examples three apart
C12_Witness ==
    /\ VirtualTraining /\ Ndims = 4
    /\ layer.virtual_batch_size = Some(2)
    /\ out.xs = <<0, 2, 4, 0, 2, 4>>
    /\ out.means = <<Zero, Rat(2, 1), Rat(4, 1)>>
    /\ CallReductionAxes = {0, 2, 3}

\* the assignments the call made to the variable var
AssignsTo(var) == {i \in DOMAIN out.assigns : out.assigns[i].var = var}

\* the call made exactly one assignment to var: a moving-average update
\* towards value
OneMovingAverageUpdate(var, value) ==
    /\ Cardinality(AssignsTo(var)) = 1
    /\ \A i \in AssignsTo(var) :
          out.assigns[i].op = "assign_sub" /\ out.assigns[i].value = value
    /\ layer.weights[var] = Blend(out.old[var], value)

\* the arithmetic means, over the sub-batches, of the statistics the call
\* computed per sub-batch
MeanOfSubBatchMeans == ReduceMean(out.means)

MeanOfSubBatchVariances == ReduceMean(out.variances)

\* C13 as stated: with virtual batching a training call registers two
\* updates and performs exactly one update of moving_mean and exactly one of
\* moving_variance, each a moving-average update towards the arithmetic mean
\* over the sub-batches of the per-sub-batch statistic.
C13_OneUpdateTowardsSubBatchMean ==
    VirtualTraining
    => /\ out.updates = 2
       /\ OneMovingAverageUpdate("moving_mean", MeanOfSubBatchMeans)
       /\ OneMovingAverageUpdate("moving_variance", MeanOfSubBatchVariances)

\* C13, amended: with virtual batching a training call registers two updates
\* and performs exactly one update of moving_mean, towards the arithmetic
\* mean of the sub-batch means, and exactly one assignment to moving_variance:
\* without renorm the update towards the arithmetic mean of the sub-batch
\* variances; with renorm the assignment of max(0, moving_stddev^2 - epsilon)
\* after the one update of moving_stddev towards the square root of that
\* mean plus epsilon.  It never performs one update per sub-batch.
C13_OneUpdatePerCall ==
    VirtualTraining
    => /\ out.updates = 2
       /\ OneMovingAverageUpdate("moving_mean", MeanOfSubBatchMeans)
       /\ ~layer.renorm
            => /\ OneMovingAverageUpdate("moving_variance", MeanOfSubBatchVariances)
               /\ Len(out.assigns) = 2
       /\ layer.renorm
            => /\ OneMovingAverageUpdate(
                     "moving_stddev",
                     RSqrt(RAdd(MeanOfSubBatchVariances, layer.epsilon)))
               /\ Cardinality(AssignsTo("moving_variance")) = 1
               /\ \A i \in AssignsTo("moving_variance") :
                     /\ out.assigns[i].op = "assign"
                     /\ \A k \in AssignsTo("moving_stddev") : k < i
               /\ layer.weights["moving_variance"]
                     = RMax(Zero, RSub(RMul(layer.weights["moving_stddev"],
                                            layer.weights["moving_stddev"]),
                                       layer.epsilon))
               /\ Len(out.assigns) = 3

\* a training call under renorm on three sub-batches of different means,
\* after an earlier call moved the statistics
C13_Witness ==
    /\ VirtualTraining /\ layer.renorm
    /\ out.xs = <<0, 2, 4, 0, 2, 4>>
    /\ Len(out.means) = 3 /\ Len(out.assigns) = 3
    /\ out.old["moving_mean"] # Zero
    /\ layer.weights["moving_mean"] # out.old["moving_mean"]

-----------------------------------------------------------------------------
(* Claims about the composed scale and offset (specification SpecTrained) *)

\* gamma and beta of the layer, 1 and 0 where it has none
Gamma == IF "gamma" \in DOMAIN layer.weights THEN layer.weights["gamma"] ELSE One

Beta == IF "beta" \in DOMAIN layer.weights THEN layer.weights["beta"] ELSE Zero

\* the scale and offset the renorm correction is composed into: gamma and
\* beta, composed with the adjustment where the layer has one (the
\* adjustment applies in training only)
ScaleBeforeRenorm ==
    IF layer.adjustment # None /\ InTraining THEN RMul(AdjustmentFn[1], Gamma)
    ELSE Gamma

OffsetBeforeRenorm ==
    IF layer.adjustment # None /\ InTraining
    THEN RAdd(RMul(AdjustmentFn[2], Gamma), Beta)
    ELSE Beta

\* normalized values the identity is evaluated at
NormalizedValues == {Rat(0 - 1, 1), Zero, Rat(1, 2), Rat(3, 1)}

\* the call composed a renorm correction into the scale and offset
RenormComposed == Called /\ GenericPath /\ layer.renorm /\ out.r # None

\* C11: the scale and offset composed for renorm satisfy, whether gamma and
\* beta exist or not (absent gamma acting as 1, absent beta as 0),
\* x * scale + offset = (x * r + d) * gamma + beta for every normalized value
\* x, i.e. scale = r * gamma and offset = d * gamma + beta; under an
\* adjustment gamma and beta are the ones the adjustment was composed into.
C11_RenormComposition ==
    RenormComposed
    => LET r == Get(out.r)
           d == Get(out.d)
           eff == Applied(out.scale, out.offset)
       IN  /\ out.scale # None /\ out.offset # None
           /\ eff[1] = RMul(r, ScaleBeforeRenorm)
           /\ eff[2] = RAdd(RMul(d, ScaleBeforeRenorm), OffsetBeforeRenorm)
           /\ \A x \in NormalizedValues :
                 RAdd(RMul(x, eff[1]), eff[2])
                    = RAdd(RMul(RAdd(RMul(x, r), d), ScaleBeforeRenorm),
                           OffsetBeforeRenorm)
           /\ layer.adjustment = None
                 => /\ eff[1] = RMul(r, Gamma)
                    /\ eff[2] = RAdd(RMul(d, Gamma), Beta)

\* a training call without adjustment on a layer with gamma 2 and beta 3,
\* whose correction is neither r = 1 nor d = 0
C11_Witness ==
    /\ RenormComposed /\ InTraining /\ layer.adjustment = None
    /\ Gamma = Rat(2, 1) /\ Beta = Rat(3, 1)
    /\ Get(out.r) \notin {One, Zero} /\ Get(out.d) # Zero

-----------------------------------------------------------------------------
(* Claims about the replicas of a moving statistic (specification
   SpecReplicas) *)

Replicas == DOMAIN replicas.copies

\* every replica has applied exactly one update
EveryReplicaUpdatedOnce == \A i \in Replicas : replicas.steps[i] = 1

\* the single moving-average update of the start value with the mean of the
\* replicas' statistics
SingleUpdateWithMeanStatistic ==
    RAdd(RMul(replicas.momentum, replicas.start),
         RMul(RSub(One, replicas.momentum), ReduceMean(replicas.stats)))

\* C17: once each of the K replicas has applied its one moving-average update
\* to its own copy, in whatever order the updates were interleaved, the mean
\* over the copies equals the single moving-average update of the start value
\* with the mean of the replicas' batch statistics.
C17_ReplicaAggregation ==
    EveryReplicaUpdatedOnce
        => ReadAggregated(replicas) = SingleUpdateWithMeanStatistic

\* three replicas with differing statistics have each updated and their
\* copies differ
C17_Witness ==
    /\ EveryReplicaUpdatedOnce
    /\ Len(replicas.copies) = MaxReplicas
    /\ replicas.momentum = MomentumArg
    /\ replicas.stats[1] # replicas.stats[2]
    /\ replicas.copies[1] # replicas.copies[2]
    /\ ReadAggregated(replicas) # replicas.start

\* momentum to the power n
RECURSIVE Power(_, _)
Power(m, n) == IF n = 0 THEN One ELSE RMul(m, Power(m, n - 1))

\* |a - b|
Distance(a, b) == IF RLe(b, a) THEN RSub(a, b) ELSE RSub(b, a)

\* v_N - s = momentum^N * (v_0 - s) on replica i after its N steps
GeometricLaw(i) ==
    RSub(replicas.copies[i], replicas.stats[i])
        = RMul(Power(replicas.momentum, replicas.steps[i]),
               RSub(replicas.start, replicas.stats[i]))

\* a step does not move any copy away from its replica's statistic
DistanceNotIncreased ==
    \A i \in Replicas :
        RLe(Distance(replicas.copies[i]', replicas.stats[i]),
            Distance(replicas.copies[i], replicas.stats[i]))

MomentumInUnitInterval ==
    RLt(Zero, replicas.momentum) /\ RLt(replicas.momentum, One)

\* C18: after N consecutive _assign_moving_average steps with the constant
\* statistic s, the moving value v_N satisfies v_N - s = momentum^N * (v_0 - s),
\* and for a momentum in (0,1) no step increases the distance to s.
C18_GeometricConvergence ==
    /\ [](\A i \in Replicas : GeometricLaw(i))
    /\ [][MomentumInUnitInterval => DistanceNotIncreased]_vars

\* a replica has taken all its steps towards a statistic its copy started away
\* from, and is strictly closer to it than at the start
C18_Witness ==
    \E i \in Replicas :
        /\ replicas.steps[i] = MaxSteps
        /\ replicas.momentum = MomentumArg
        /\ replicas.start # replicas.stats[i]
        /\ replicas.copies[i] # replicas.stats[i]
        /\ RLt(Distance(replicas.copies[i], replicas.stats[i]),
               Distance(replicas.start, replicas.stats[i]))

-----------------------------------------------------------------------------
(* Claims about the adapt-based Normalization layer (specification
   SpecNorm) *)

WholeLayer == norm.layers[1]

MergedLayer == norm.layers[2]

\* the shard layers are merged and the layer on the whole data set is adapted
MergedAndAdapted == norm.merged /\ 1 \in norm.adapted

\* C19: once the layers adapted on the disjoint shards of a data set are
\* merged by merge_state, the merged layer has the mean and the variance of
\* the layer adapted on the whole data set, and the two layers give the same
\* output on every input.
C19_MergeEqualsWholeAdapt ==
    MergedAndAdapted
        => /\ MergedLayer.mean = WholeLayer.mean
           /\ MergedLayer.variance = WholeLayer.variance
           /\ MergedLayer.count = WholeLayer.count
           /\ \A data \in DataSets :
                 NormCall(MergedLayer, data) = NormCall(WholeLayer, data)

\* three shards, each with data and with statistics of its own, are merged
C19_Witness ==
    /\ MergedAndAdapted
    /\ norm.shards = 3
    /\ Len(WholeLayer.keep_axis) = 2
    /\ \A i \in 3..4 : /\ norm.layers[i].count > 0
                       /\ norm.layers[i].mean # WholeLayer.mean

\* the ways of writing the axes 1 and 2 of a rank-3 tensor
AxesOneAndTwo == {<<1, 2>>, <<2, 1>>, <<1, 0 - 1>>, <<0 - 1, 1>>}

\* the output of a layer constructed with axis=(1, 2), adapted on the batches
\* of the data set and called on the data set
OutputWithAxesInOrder ==
    NormCall(Adapt(NormInit(<<1, 2>>), NormBatches, ShapeOf(norm.data)),
             norm.data)

NormalizedWholeData == out.kind = "normalized" /\ out.layer = 1

\* C20: a Normalization layer constructed with axis (1,2), (2,1), (1,-1) or
\* (-1,1), adapted on a rank-3 data set and called on it, gives the output of
\* the layer constructed with axis (1,2).
C20_AxisOrderAndSign ==
    (NormalizedWholeData /\ WholeLayer.axis \in AxesOneAndTwo)
        => out.value = OutputWithAxesInOrder

\* the layer written with a negative axis in first place has normalized the
\* data of test_axis_permutations to -1 on the first example and 1 on the
\* second
C20_Witness ==
    /\ NormalizedWholeData
    /\ WholeLayer.axis = <<0 - 1, 1>>
    /\ norm.data = <<Example1, Example2>>
    /\ \A idx \in Indices(ShapeOf(norm.data)) :
          /\ out.value[idx].square = One
          /\ out.value[idx].sign = (IF idx[1] = 0 THEN 0 - 1 ELSE 1)

-----------------------------------------------------------------------------
(* Claims about calls on constant batches (specification SpecConstant) *)

\* the column of the reshaped batch that element k lies in
ColumnOf(k) == ((k - 1) % Len(out.means)) + 1

\* the last call succeeded on a non-empty batch each of whose values equals
\* the mean it was normalized with
ConstantInputCalled ==
    /\ out.kind = "call" /\ out.error = "" /\ out.xs # <<>>
    /\ \A k \in DOMAIN out.xs : Rat(out.xs[k], 1) = out.means[ColumnOf(k)]

BetaOrZero == IF Weight(layer, "beta") = None THEN Zero ELSE layer.weights["beta"]

GammaOrOne == IF Weight(layer, "gamma") = None THEN One ELSE layer.weights["gamma"]

\* every position of the output is finite and is exactly the offset o
OutputIsExactly(o) ==
    \A k \in DOMAIN out.outputs :
        /\ out.outputs[k].finite
        /\ out.outputs[k].sign = 0
        /\ out.outputs[k].offset = o

\* C21 as stated: a constant input is normalized to exactly beta (0 when
\* beta is absent) at every position, in every call.
C21_ConstantInputGivesBeta == ConstantInputCalled => OutputIsExactly(BetaOrZero)

\* the call applied a renorm correction, an adjustment
RenormCorrectionApplied == layer.renorm /\ out.training.value

AdjustmentApplied == layer.adjustment # None /\ out.training.value

\* C21: a constant input equal to the mean used is normalized, without a
\* division by zero, to exactly the offset the call applies at every
\* position: beta (0 when absent) when the call applies neither a renorm
\* correction nor an adjustment, d * gamma + beta in a renorm training call
\* without adjustment.
C21_ConstantInputGivesOffset ==
    ConstantInputCalled
        => /\ OutputIsExactly(IF out.offset = None THEN Zero ELSE Get(out.offset))
           /\ (~RenormCorrectionApplied /\ ~AdjustmentApplied)
                 => OutputIsExactly(BetaOrZero)
           /\ (RenormCorrectionApplied /\ ~AdjustmentApplied)
                 => OutputIsExactly(RAdd(RMul(Get(out.d), GammaOrOne), BetaOrZero))

\* a constant batch away from 0 was normalized in training mode to the trained
\* beta by a layer whose gamma is not 1, with variance 0
C21_Witness ==
    /\ ConstantInputCalled
    /\ ~RenormCorrectionApplied /\ ~AdjustmentApplied
    /\ out.training.value
    /\ out.xs = <<3, 3, 3, 3>>
    /\ out.variances[1] = Zero
    /\ GammaOrOne = Rat(2, 1)
    /\ BetaOrZero = Rat(3, 1)
    /\ OutputIsExactly(Rat(3, 1))

\* the layers were constructed with an axis that is or contains 0
AxisHasZero == norm.layers # <<>> /\ 0 \in Range(norm.layers[1].axis)

\* C22: a Normalization layer constructed with axis 0, or with a tuple that
\* contains 0 in any position, has raised ValueError in the constructor: no
\* layer exists to be built or adapted.
C22_AxisZeroRaises ==
    AxisHasZero
        => /\ pc = "rejected"
           /\ norm.adapted = {}
           /\ \A i \in DOMAIN norm.layers :
                 /\ norm.layers[i].error = "ValueError"
                 /\ ~norm.layers[i].built

\* the constructor was given (-1, 0), with 0 in second place
C22_Witness ==
    /\ AxisHasZero
    /\ norm.layers[1].axis = <<0 - 1, 0>>
    /\ norm.layers[1].error = "ValueError"

-----------------------------------------------------------------------------
(* Claims about the trainable flag (specification SpecFrozen) *)

\* this step is a call on the layer while its trainable flag is False
FrozenCallStep == ~layer.trainable /\ calls' = calls + 1

\* the call normalized with the moving statistics and registered no update
InferenceWithMovingStatistics(o, w) ==
    /\ o.training = [static |-> TRUE, value |-> FALSE]
    /\ o.updates = 0 /\ o.assigns = <<>>
    /\ \A j \in DOMAIN o.means :
          /\ o.means[j] = w["moving_mean"]
          /\ o.variances[j] = w["moving_variance"]

\* C23: in V2 behaviour every call made while trainable is False, whatever
\* its training argument and whatever calls and toggles came before, leaves
\* all weights as they were and normalizes with the moving statistics.
C23_FrozenLayerInfers ==
    [][FrozenCallStep
          => /\ layer'.weights = layer.weights
             /\ InferenceWithMovingStatistics(out', layer.weights)]_vars

\* a layer that was trained by one call and then frozen has been called:
\* its statistics, no longer the initial ones, are those the call used
C23_Witness ==
    /\ out.kind = "call" /\ out.error = ""
    /\ ~out.trainable
    /\ calls = 2
    /\ out.xs = <<3, 3, 3, 3>>
    /\ layer.weights["moving_mean"] # Zero
    /\ out.old = layer.weights
    /\ out.means[1] = layer.weights["moving_mean"]

-----------------------------------------------------------------------------
(* Further claims about construction and build (specification Spec) *)

\* the data format of the fused op for an input rank and a channel axis
FusedDataFormats ==
    { <<4, 1, "NCHW">>, <<4, 3, "NHWC">>, <<5, 1, "NCDHW">>, <<5, 4, "NDHWC">> }

\* build of a BatchNormalization layer has succeeded and left fused True
BuiltFused ==
    pc \in {"built", "configured", "reloaded"} /\ layer.fused = Some(TRUE)

\* C24: after a successful build in V1 or V2 behaviour, fused being True
\* implies that renorm is disabled, virtual_batch_size and adjustment are
\* None, one axis is normalized, the input rank and the resolved axis are one
\* of (4,1), (4,3), (5,1), (5,4) and _data_format is the matching one of NCHW,
\* NHWC, NCDHW, NDHWC.
C24_FusedImplies ==
    BuiltFused
        => /\ ~layer.renorm
           /\ layer.virtual_batch_size = None
           /\ layer.adjustment = None
           /\ Len(layer.axis.val) = 1
           /\ layer.data_format # None
           /\ <<Len(shape.dims), layer.axis.val[1], Get(layer.data_format)>>
                 \in FusedDataFormats

\* a V1 layer constructed with axis -1 is built fused on a rank-5 input
C24_Witness ==
    /\ BuiltFused
    /\ ~layer.v2
    /\ args.axis.val = <<0 - 1>>
    /\ Len(shape.dims) = 5
    /\ layer.data_format = Some("NDHWC")

\* an axis attribute as build reads it: an int stands for the list of it
AxisEntries(l) == l.axis.val

\* build of the BatchNormalization layer has raised
BuildFailed == pc = "failed"

Fresh == InitLayer(args)

\* the object as the caller holds it once the exception has propagated
AfterException(l) == [l EXCEPT !.error = ""]

\* a build on input_shape ends the same way on the layers a and b: the same
\* exception or none, the same resolved axes, the same fused decision
SameBuild(a, b, input_shape) ==
    \E x \in {Build(a, input_shape)}, y \in {Build(b, input_shape)} :
        /\ x.error = y.error
        /\ x.error = "" => AxisEntries(x) = AxisEntries(y) /\ x.fused = y.fused

\* C25: when build has raised, self.axis and self.fused hold the values they
\* had before the call, and a later build on any input shape ends as it does
\* on a freshly constructed layer.
C25_FailedBuildLeavesLayerFresh ==
    BuildFailed
        => /\ AxisEntries(layer) = AxisEntries(Fresh)
           /\ layer.fused = Fresh.fused
           /\ \A s \in Shapes : SameBuild(AfterException(layer), Fresh, s)

-----------------------------------------------------------------------------
(* Claims about the order of a renorm training step (specification
   SpecRenormStep) *)

InRenormStep == out.kind = "renorm step"

Ran(op) == op \in Range(out.done)

\* the layer with the weights it had when the step began
LayerBeforeStep == [layer EXCEPT !.weights = out.old]

\* r and d are those computed from renorm_mean and renorm_stddev as they were
\* before the step
CorrectionFromOldValues ==
    <<Get(out.r), Get(out.d)>>
        = RenormCorrection(LayerBeforeStep, out.mean, out.variance, StepTraining)

\* op came before every operation of ops that has run, and has run if any
\* of them has
Before(op, ops) ==
    \A i \in DOMAIN out.done :
        out.done[i] \in ops => \E j \in 1..(i - 1) : out.done[j] = op

\* C26: in a renorm training step r and d are computed from the values of
\* renorm_mean and renorm_stddev before the step's updates, both are then
\* updated with renorm_momentum, and the updates of the inference moving
\* averages run only after both.
C26_RenormStepOrder ==
    InRenormStep
        => /\ Ran("correction") => CorrectionFromOldValues
           /\ Before("correction", {"renorm_mean", "renorm_stddev"})
           /\ Ran("renorm_mean")
                 => layer.weights["renorm_mean"]
                       = AssignMovingAverage(out.old["renorm_mean"], out.mean,
                            Get(layer.renorm_momentum), out.inputs_size)
           /\ Ran("renorm_stddev")
                 => layer.weights["renorm_stddev"]
                       = AssignMovingAverage(out.old["renorm_stddev"],
                            RSqrt(RAdd(out.variance, layer.epsilon)),
                            Get(layer.renorm_momentum), out.inputs_size)
           /\ Before("renorm_mean",
                     {"moving_mean", "moving_stddev", "moving_variance"})
           /\ Before("renorm_stddev",
                     {"moving_mean", "moving_stddev", "moving_variance"})

\* a second step has ended on a layer whose renorm variables the first step
\* moved: its correction differs from the one the updated values would give
C26_Witness ==
    /\ InRenormStep
    /\ calls = 2
    /\ Range(out.done) = RenormOps
    /\ out.old["renorm_mean"] # Zero
    /\ layer.weights["renorm_mean"] # out.old["renorm_mean"]
    /\ layer.weights["moving_mean"] # out.old["moving_mean"]
    /\ <<Get(out.r), Get(out.d)>>
          # RenormCorrection(layer, out.mean, out.variance, StepTraining)

-----------------------------------------------------------------------------
(* Further claims about call (specification SpecCall) *)

MovingStddevSquaredMinusEpsilon ==
    RSub(RMul(layer.weights["moving_stddev"], layer.weights["moving_stddev"]),
         layer.epsilon)

\* moving_stddev after the call: moved towards sqrt(new_variance + epsilon) on
\* a non-empty batch, left as it was on an empty one
MovingStddevUpdated ==
    layer.weights["moving_stddev"]
        = IF out.xs = <<>> THEN out.old["moving_stddev"]
          ELSE Blend(out.old["moving_stddev"],
                     RSqrt(RAdd(GroupsVariance, layer.epsilon)))

\* C27: with renorm, after every training-mode call moving_variance is
\* max(0, moving_stddev^2 - epsilon) for the moving_stddev that the call's
\* moving-average update has left, and in every state moving_variance is not
\* negative.
C27_MovingVarianceFromStddev ==
    /\ (Called /\ layer.renorm /\ InTraining)
          => /\ MovingStddevUpdated
             /\ layer.weights["moving_variance"]
                   = RMax(Zero, MovingStddevSquaredMinusEpsilon)
    /\ layer.renorm => RLe(Zero, layer.weights["moving_variance"])

\* a renorm layer without virtual batching has been trained twice, last on
\* (0, 3, 6): its moving_stddev and moving_variance both moved
C27_Witness ==
    /\ Called /\ layer.renorm /\ InTraining
    /\ layer.virtual_batch_size = None
    /\ calls = 2
    /\ out.xs = <<0, 3, 6>>
    /\ layer.weights["moving_stddev"] # out.old["moving_stddev"]
    /\ layer.weights["moving_variance"] # out.old["moving_variance"]
    /\ RLt(Zero, layer.weights["moving_variance"])

-----------------------------------------------------------------------------
(* Claims about LayerNormalization.call (specification SpecLayerNorm) *)

LayerNormCalled == pc = "layernorm called"

SeveralAxes == Len(layer.axis.val) >= 2

\* the index of gamma and beta whose j-th coordinate is the coordinate of
\* position p on axis[j]
IndexOnAxes(p) == [j \in DOMAIN layer.axis.val |-> p[layer.axis.val[j] + 1]]

ShapeInAxisOrder ==
    Get(layer.param_shape)
        = [j \in DOMAIN layer.axis.val |-> Some(out.dims[layer.axis.val[j] + 1])]

\* C28: for LayerNormalization(axis=[a_0, ..., a_k]) with the axes in any
\* order, gamma and beta have the sizes of the axes in the given order and the
\* call applies the element at index (i_0, ..., i_k) exactly at the input
\* positions whose coordinate on a_j is i_j.
C28_ParamsFollowAxisOrder ==
    (LayerNormCalled /\ SeveralAxes /\ layer.weights # {})
       => /\ ShapeInAxisOrder
          /\ ~Raised(out)
          /\ \A p \in Coordinates(out.dims) : out.param_at[p] = IndexOnAxes(p)

\* the same for axes given in ascending order
C28_ParamsFollowAscendingAxes ==
    (/\ LayerNormCalled /\ SeveralAxes /\ layer.weights # {}
     /\ layer.axis.val[1] < layer.axis.val[2])
       => /\ ShapeInAxisOrder
          /\ ~Raised(out)
          /\ \A p \in Coordinates(out.dims) : out.param_at[p] = IndexOnAxes(p)

\* LayerNormalization(axis=[2, 1]) called on an input of shape (2, 3, 4):
\* gamma has shape (4, 3) and its element (0, 1) meets position (0, 0, 1)
C28_DescendingAxes ==
    /\ LayerNormCalled /\ layer.weights # {}
    /\ layer.axis.val = <<2, 1>>
    /\ Get(layer.param_shape) = <<Some(4), Some(3)>>
    /\ ~Raised(out)
    /\ out.param_at[<<0, 0, 1>>] = <<0, 1>>

LayerNormBuilt == pc \in {"layernorm built", "layernorm called"}

\* the axes are exactly the dimensions from the smallest axis to the last
ContiguousRunToLast ==
    \E lo \in 0..(Len(shape.dims) - 1) :
        Range(layer.axis.val) = lo..(Len(shape.dims) - 1)

\* C29: build sets _fused to True exactly when the axes are a contiguous run
\* ending at the last dimension, epsilon >= 1.001e-5 and the dtype is float32;
\* a call of such a layer passes every 'assert dim in axis', and pre_dim *
\* in_dim is the number of elements of the input, which is the number of
\* elements of the shape [1, pre_dim, in_dim, 1] it is reshaped to.
C29_FusedCollapseKeepsElements ==
    /\ LayerNormBuilt
          => (Get(layer.fused)
                <=> /\ ContiguousRunToLast
                    /\ RLe(Rat(1001, 100000000), layer.epsilon)
                    /\ layer.dtype = "float32")
    /\ (LayerNormCalled /\ Get(layer.fused))
          => /\ out.error # "AssertionError"
             /\ \A d \in 0..(Len(out.dims) - 1) :
                   (\E a \in Range(layer.axis.val) : a <= d)
                      => d \in Range(layer.axis.val)
             /\ out.pre_dim * out.in_dim = Size(out.dims)
             /\ out.squeezed_shape = <<1, out.pre_dim, out.in_dim, 1>>
             /\ Size(out.squeezed_shape) = Size(out.dims)

\* a fused layer with axes (1, 2) given in descending order was called on an
\* input of shape (2, 3, 4): pre_dim is 2 and in_dim is 12
C29_Witness ==
    /\ LayerNormCalled /\ Get(layer.fused)
    /\ layer.axis.val = <<2, 1>>
    /\ out.dims = <<2, 3, 4>>
    /\ out.pre_dim = 2 /\ out.in_dim = 12
    /\ ~Raised(out)

-----------------------------------------------------------------------------
(* A tuple axis and the equal list (specification Spec) *)

TupleAxisGiven == pc \in {"rejected", "constructed", "built", "failed"}
                     /\ args.axis.kind = "tuple"

\* the layer constructed with the same arguments and the axis as a list
WithListAxis == InitLayer([args EXCEPT !.axis.kind = "list"])

\* C30: BatchNormalization with an axis given as a tuple of ints ends
\* construction and build as with the equal list: the same exception or
\* none and, when build succeeds, the same resolved axes, the same fused
\* decision and the same data format.
C30_TupleAxisAsList ==
    TupleAxisGiven =>
       /\ pc \in {"rejected", "constructed"} => layer.error = WithListAxis.error
       /\ pc \in {"built", "failed"} =>
             \E x \in {Build(WithListAxis, shape)} :
                 /\ layer.error = x.error
                 /\ x.error = "" => /\ AxisEntries(layer) = AxisEntries(x)
                                    /\ layer.fused = x.fused
                                    /\ layer.data_format = x.data_format

\* BatchNormalization(axis=(-1,)) has raised TypeError in build on an input
\* of rank 4, on which the layer with axis=[-1] builds
C30_TupleWithNegativeEntry ==
    /\ pc = "failed" /\ args.axis = [kind |-> "tuple", val |-> <<0 - 1>>]
    /\ Len(shape.dims) = 4
    /\ layer.error = "TypeError"
    /\ ~Raised(Build(WithListAxis, shape))

=============================================================================
